---- MODULE Spec2Model ----
(***************************************************************************)
(* Ping Watch: ingestion API (backend/app), job queue and clip worker      *)
(* (worker/app) as a state machine.  Rows of the database are records,     *)
(* a table is a function from the primary keys that have a row to the row. *)
(***************************************************************************)
EXTENDS Integers, Sequences, FiniteSets, TLC

\* Python None: NULL for strings and ids, NOTIME for timestamps and numbers.
\* A table is a function whose domain is the set of primary keys that have a row.
NULL == "null"
NOTIME == 0 - 1

\* ---- bounds of the model
MaxTime == 2
MaxJobs == 2
LinkTtl == 1

\* ---- value universes
Users == {"u1", "u2"}
Tokens == {"t1", "t2"}
NoToken == "no-authorization-header"
BadToken == "unknown-token"
Bearers == Tokens \cup {NoToken, BadToken}
DeviceIds == {"d1", "d2"}
SessionIds == {"s1", "s2"}
EventIds == {"e1", "e2"}
Etags == {"etag-a", "etag-b"}
Times == 0..MaxTime

VARIABLES
    now,            \* the clock read by _now() / _utc_now()
    authRequired,   \* AUTH_REQUIRED
    users,          \* UserModel rows (set of user_id)
    authSessions,   \* AuthSessionModel rows, keyed by the bearer token whose hash they hold
    devices,        \* DeviceModel rows
    sessions,       \* SessionModel rows
    events,         \* EventModel rows
    queue,          \* the rq queue "clip_uploaded": jobs in enqueue order
    worker,         \* the worker process: position inside process_clip
    attempts,       \* TelegramLinkAttemptModel rows, keyed by attempt_id
    tg,             \* Telegram side: the sendMessage calls and the getUpdates calls of
                    \* the last notifications request, and _telegram_updates_offset
    uploads,        \* the file system as the relay upload writes it: directories made
                    \* and files written, by resolved path
    inflight,       \* the requests being served step by step: their position
                    \* between two store or queue calls and their local variables
    resp            \* the response of the request just served

vars == <<now, authRequired, users, authSessions, devices, sessions, events,
          queue, worker, attempts, tg, uploads, inflight, resp>>

\* ---------------------------------------------------------------- auth.py

\* hash_auth_token / _hash_token: SHA-256 hex digest, injective on the tokens used
hash_auth_token(token) == <<"sha256", token>>

\* store.get_auth_session_by_token_hash: is there a row, and the row
has_auth_session(token_hash) ==
    \E t \in DOMAIN authSessions : authSessions[t].token_hash = token_hash

get_auth_session_by_token_hash(token_hash) ==
    authSessions[CHOOSE t \in DOMAIN authSessions : authSessions[t].token_hash = token_hash]

\* authenticate_request: [code, user, detail]
authenticate_request(bearer) ==
    IF bearer = NoToken
    THEN [code |-> 401, user |-> NULL, detail |-> "missing bearer token"]
    ELSE IF ~has_auth_session(hash_auth_token(bearer))
    THEN [code |-> 401, user |-> NULL, detail |-> "invalid auth token"]
    ELSE LET s == get_auth_session_by_token_hash(hash_auth_token(bearer)) IN
         IF s.revoked_at # NOTIME
         THEN [code |-> 401, user |-> NULL, detail |-> "invalid auth token"]
         ELSE IF s.expires_at # NOTIME /\ s.expires_at < now
         THEN [code |-> 401, user |-> NULL, detail |-> "expired auth token"]
         ELSE IF s.user_id \notin users
         THEN [code |-> 401, user |-> NULL, detail |-> "invalid auth token"]
         ELSE [code |-> 200, user |-> s.user_id, detail |-> "ok"]

\* get_request_user_id(request, require_when_auth_enabled=...)
get_request_user_id(bearer, require_when_auth_enabled) ==
    IF bearer # NoToken
    THEN authenticate_request(bearer)
    ELSE IF require_when_auth_enabled /\ authRequired
    THEN [code |-> 401, user |-> NULL, detail |-> "missing bearer token"]
    ELSE [code |-> 200, user |-> NULL, detail |-> "ok"]

\* ---------------------------------------------------------------- responses

\* what the last step answered: the handler, the Authorization bearer and the ids
\* of the request, the HTTP status, the rows returned (body)
Resp(op, bearer, code, session_id, id, body) ==
    [op |-> op, bearer |-> bearer, code |-> code, session_id |-> session_id,
     id |-> id, body |-> body,
     dropped_processing_events |-> 0, dropped_queued_jobs |-> 0]

\* a step that serves no HTTP request
NoResp(op) == Resp(op, NoToken, 0, NULL, NULL, {})

\* ---------------------------------------------------------------- store.py

\* str(uuid4()) is an input of the call that mints an id (the parameter fresh):
\* an id of the pool that no row of the table holds yet
Unused(table, ids) == ids \ DOMAIN table
Has(table, id) == id \in DOMAIN table
Put(table, id, row) == [i \in DOMAIN table \cup {id} |-> IF i = id THEN row ELSE table[i]]

\* store.create_user
create_user(user_id) == users \cup {user_id}

\* store.create_auth_session
create_auth_session(token, user_id, expires_at) ==
    Put(authSessions, token,
        [user_id |-> user_id, token_hash |-> hash_auth_token(token),
         expires_at |-> expires_at, revoked_at |-> NOTIME])

\* variant: a register by another user takes the device over
register_existing_device_takeover(devs, device_id, user_id) ==
    IF user_id # NULL
    THEN [db |-> [devs EXCEPT ![device_id].user_id = user_id], ret |-> device_id]
    ELSE [db |-> devs, ret |-> device_id]

\* variant: an unclaimed device is returned as it is, without an owner
register_existing_device_keeps_unclaimed(devs, device_id, user_id) ==
    LET existing == devs[device_id] IN
    IF user_id # NULL /\ existing.user_id \notin {NULL, user_id}
    THEN [db |-> devs, ret |-> "ValueError"]
    ELSE [db |-> devs, ret |-> device_id]

\* store.register_device with a device_id that exists: [db, ret]
register_existing_device(devs, device_id, user_id) ==
    LET existing == devs[device_id] IN
    IF user_id # NULL /\ existing.user_id \notin {NULL, user_id}
    THEN [db |-> devs, ret |-> "ValueError"]
    ELSE IF user_id # NULL /\ existing.user_id = NULL
    THEN [db |-> [devs EXCEPT ![device_id].user_id = user_id], ret |-> device_id]
    ELSE [db |-> devs, ret |-> device_id]

\* store.register_device: [db, ret]; device_id NULL mints an id
register_device(devs, device_id, user_id, t, fresh) ==
    IF device_id # NULL /\ Has(devs, device_id)
    THEN register_existing_device(devs, device_id, user_id)
    ELSE LET id == IF device_id # NULL THEN device_id ELSE fresh IN
         [db |-> Put(devs, id,
                    [user_id |-> user_id, created_at |-> t,
                     telegram_chat_id |-> NULL, telegram_linked_at |-> NOTIME]),
          ret |-> id]

\* variant: the device is not looked up for any caller
create_session_any_device(sess, device_id, user_id, fresh) ==
    [db |-> Put(sess, fresh,
                [device_id |-> device_id, user_id |-> user_id,
                 status |-> "active", stopped_at |-> NOTIME]),
     ret |-> fresh]

\* store.create_session: [db, ret]
create_session(sess, device_id, user_id, fresh) ==
    IF user_id # NULL /\ (~Has(devices, device_id) \/ devices[device_id].user_id # user_id)
    THEN [db |-> sess, ret |-> NULL]
    ELSE LET id == fresh IN
         [db |-> Put(sess, id,
                    [device_id |-> device_id, user_id |-> user_id,
                     status |-> "active", stopped_at |-> NOTIME]),
          ret |-> id]

\* variant: the status is set and stopped_at is left as it is
stop_session_unstamped(sess, session_id, user_id, t) ==
    IF ~Has(sess, session_id)
    THEN [db |-> sess, ret |-> NULL]
    ELSE IF user_id # NULL /\ sess[session_id].user_id # user_id
    THEN [db |-> sess, ret |-> NULL]
    ELSE [db |-> [sess EXCEPT ![session_id].status = "stopped"],
          ret |-> session_id]

\* store.stop_session: [db, ret]
stop_session(sess, session_id, user_id, t) ==
    IF ~Has(sess, session_id)
    THEN [db |-> sess, ret |-> NULL]
    ELSE IF user_id # NULL /\ sess[session_id].user_id # user_id
    THEN [db |-> sess, ret |-> NULL]
    ELSE [db |-> [sess EXCEPT ![session_id].status = "stopped",
                              ![session_id].stopped_at = t],
          ret |-> session_id]

\* the EventModel row create_event inserts
NewEvent(session_id, session, device_id, clip_uri, clip_container) ==
    [session_id |-> session_id, user_id |-> session.user_id, device_id |-> device_id,
     status |-> "processing", clip_uri |-> clip_uri, clip_container |-> clip_container,
     clip_blob_name |-> IF clip_container = NULL THEN NULL ELSE "blob",
     clip_uploaded_at |-> NOTIME, clip_etag |-> NULL,
     summary |-> NULL, label |-> NULL, confidence |-> NOTIME, should_notify |-> NULL]

\* variant: a repeated create_event puts the row back to processing
create_event_existing_revives(evs, session_id, event_id) ==
    IF evs[event_id].session_id # session_id
    THEN [db |-> evs, ret |-> "ValueError"]
    ELSE [db |-> [evs EXCEPT ![event_id].status = "processing"], ret |-> event_id]

\* variant: a repeated create_event does not compare the sessions
create_event_existing_any_session(evs, session_id, event_id) ==
    [db |-> evs, ret |-> event_id]

\* store.create_event once the session checks passed and event_id names a row
create_event_existing(evs, session_id, event_id) ==
    IF evs[event_id].session_id # session_id
    THEN [db |-> evs, ret |-> "ValueError"]
    ELSE [db |-> evs, ret |-> event_id]

\* variant: a session that is not active takes no new event
create_event_active_only(evs, session_id, device_id, clip_uri, event_id, clip_container, user_id, fresh) ==
    IF ~Has(sessions, session_id) THEN [db |-> evs, ret |-> NULL]
    ELSE LET session == sessions[session_id] IN
    IF session.status # "active" THEN [db |-> evs, ret |-> NULL]
    ELSE IF user_id # NULL /\ session.user_id # user_id THEN [db |-> evs, ret |-> NULL]
    ELSE IF session.device_id # device_id THEN [db |-> evs, ret |-> NULL]
    ELSE IF event_id # NULL /\ Has(evs, event_id)
    THEN create_event_existing(evs, session_id, event_id)
    ELSE LET id == IF event_id # NULL THEN event_id ELSE fresh IN
         [db |-> Put(evs, id,
                    NewEvent(session_id, session, device_id, clip_uri, clip_container)),
          ret |-> id]

\* store.create_event: [db, ret]; event_id NULL mints an id
create_event(evs, session_id, device_id, clip_uri, event_id, clip_container, user_id, fresh) ==
    IF ~Has(sessions, session_id) THEN [db |-> evs, ret |-> NULL]
    ELSE LET session == sessions[session_id] IN
    IF user_id # NULL /\ session.user_id # user_id THEN [db |-> evs, ret |-> NULL]
    ELSE IF session.device_id # device_id THEN [db |-> evs, ret |-> NULL]
    ELSE IF event_id # NULL /\ Has(evs, event_id)
    THEN create_event_existing(evs, session_id, event_id)
    ELSE LET id == IF event_id # NULL THEN event_id ELSE fresh IN
         [db |-> Put(evs, id,
                    NewEvent(session_id, session, device_id, clip_uri, clip_container)),
          ret |-> id]

\* store.get_event
get_event(evs, event_id, user_id) ==
    IF ~Has(evs, event_id) THEN NULL
    ELSE IF user_id # NULL /\ evs[event_id].user_id # user_id THEN NULL
    ELSE event_id

\* variant: the summary is written and the status is left as it is
update_event_summary_keeps_status(evs, event_id, p) ==
    IF ~Has(evs, event_id)
    THEN [db |-> evs, ret |-> NULL]
    ELSE [db |-> [evs EXCEPT ![event_id].summary = p.summary,
                             ![event_id].label = p.label,
                             ![event_id].confidence = p.confidence,
                             ![event_id].should_notify = p.should_notify],
          ret |-> event_id]

\* variant: a summary for an id that has no row inserts the row
update_event_summary_upserts(evs, event_id, p) ==
    [db |-> Put(evs, event_id,
                [session_id |-> NULL, user_id |-> NULL, device_id |-> NULL,
                 status |-> "done", clip_uri |-> NULL, clip_container |-> NULL,
                 clip_blob_name |-> NULL, clip_uploaded_at |-> NOTIME, clip_etag |-> NULL,
                 summary |-> p.summary, label |-> p.label, confidence |-> p.confidence,
                 should_notify |-> p.should_notify]),
     ret |-> event_id]

\* store.update_event_summary: [db, ret]
update_event_summary(evs, event_id, p) ==
    IF ~Has(evs, event_id)
    THEN [db |-> evs, ret |-> NULL]
    ELSE [db |-> [evs EXCEPT ![event_id].summary = p.summary,
                             ![event_id].label = p.label,
                             ![event_id].confidence = p.confidence,
                             ![event_id].should_notify = p.should_notify,
                             ![event_id].status = "done"],
          ret |-> event_id]

\* variant: every finalize stamps clip_uploaded_at again
mark_event_clip_uploaded_restamps(evs, event_id, etag, user_id, t) ==
    IF get_event(evs, event_id, user_id) = NULL
    THEN [db |-> evs, ret |-> NULL]
    ELSE LET stamped == [evs EXCEPT ![event_id].clip_uploaded_at = t]
         IN [db |-> IF etag # NULL
                    THEN [stamped EXCEPT ![event_id].clip_etag = etag]
                    ELSE stamped,
             ret |-> event_id]

\* variant: a clip already stamped, or an Event already done, is not finalized again
mark_event_clip_uploaded_once(evs, event_id, etag, user_id, t) ==
    IF get_event(evs, event_id, user_id) = NULL
    THEN [db |-> evs, ret |-> NULL]
    ELSE IF evs[event_id].clip_uploaded_at # NOTIME \/ evs[event_id].status = "done"
    THEN [db |-> evs, ret |-> NULL]
    ELSE [db |-> IF etag # NULL
                 THEN [evs EXCEPT ![event_id].clip_uploaded_at = t, ![event_id].clip_etag = etag]
                 ELSE [evs EXCEPT ![event_id].clip_uploaded_at = t],
          ret |-> event_id]

\* store.mark_event_clip_uploaded: [db, ret]
mark_event_clip_uploaded(evs, event_id, etag, user_id, t) ==
    IF get_event(evs, event_id, user_id) = NULL
    THEN [db |-> evs, ret |-> NULL]
    ELSE LET stamped == IF evs[event_id].clip_uploaded_at = NOTIME
                        THEN [evs EXCEPT ![event_id].clip_uploaded_at = t]
                        ELSE evs
         IN [db |-> IF etag # NULL
                    THEN [stamped EXCEPT ![event_id].clip_etag = etag]
                    ELSE stamped,
             ret |-> event_id]

\* f"local://{clip_blob_name}"
LocalUri(clip_blob_name) ==
    CASE clip_blob_name = "blob" -> "local://blob"
      [] clip_blob_name = "sub/../blob" -> "local://sub/../blob"
      [] clip_blob_name = "../escape" -> "local://../escape"
      [] OTHER -> "local:///abs/escape"

\* store.mark_event_clip_uploaded_via_local_api: [db, ret]
mark_event_clip_uploaded_via_local_api(evs, event_id, clip_blob_name, user_id) ==
    IF get_event(evs, event_id, user_id) = NULL
    THEN [db |-> evs, ret |-> NULL]
    ELSE [db |-> [evs EXCEPT ![event_id].clip_container = "local",
                             ![event_id].clip_uri = LocalUri(clip_blob_name)],
          ret |-> event_id]

\* store.list_events
list_events(evs, session_id, user_id) ==
    {e \in DOMAIN evs : /\ (user_id # NULL => evs[e].user_id = user_id)
                        /\ (session_id # NULL => evs[e].session_id = session_id)}

\* the rows store.delete_processing_events_for_session deletes
ProcessingEventsOf(evs, session_id, user_id) ==
    {e \in DOMAIN evs : /\ evs[e].session_id = session_id
                        /\ evs[e].status = "processing"
                        /\ (user_id # NULL => evs[e].user_id = user_id)}

\* variant: the delete ignores the status of the rows
delete_processing_events_for_session_any_status(evs, session_id, user_id) ==
    LET gone == {e \in DOMAIN evs : /\ evs[e].session_id = session_id
                                    /\ (user_id # NULL => evs[e].user_id = user_id)} IN
    [db |-> [e \in DOMAIN evs \ gone |-> evs[e]],
     ret |-> Cardinality(gone)]

\* store.delete_processing_events_for_session: [db, ret]
delete_processing_events_for_session(evs, session_id, user_id) ==
    LET gone == ProcessingEventsOf(evs, session_id, user_id) IN
    [db |-> [e \in DOMAIN evs \ gone |-> evs[e]],
     ret |-> Cardinality(gone)]

\* ---------------------------------------------------------------- queue.py

\* the payload dict enqueue_inference_job builds
JobPayload(event_id, session_id, clip_blob_name, clip_container, analysis_prompt) ==
    [event_id |-> event_id, session_id |-> session_id, clip_blob_name |-> clip_blob_name,
     clip_container |-> clip_container, analysis_prompt |-> analysis_prompt]

\* backend queue.enqueue_inference_job: [q, ret]; broker_up FALSE is Redis unreachable
enqueue_inference_job(q, event_id, session_id, clip_blob_name, clip_container, analysis_prompt, broker_up) ==
    IF broker_up
    THEN [q |-> Append(q, [status |-> "queued",
                           payload |-> JobPayload(event_id, session_id, clip_blob_name,
                                                  clip_container, analysis_prompt)]),
          ret |-> Len(q) + 1]
    ELSE [q |-> q, ret |-> 0]

\* the queued jobs cancel_session_jobs matches, in queue order
MatchingJobs(q, session_id) ==
    {i \in 1..Len(q) : q[i].status = "queued" /\ q[i].payload.session_id = session_id}

\* variant: cancel_session_jobs cancels the queued jobs of every session
cancel_session_jobs_every_session(q, session_id, fail) ==
    [q |-> [i \in 1..Len(q) |->
              IF q[i].status = "queued" THEN [q[i] EXCEPT !.status = "canceled"] ELSE q[i]],
     ret |-> Cardinality({i \in 1..Len(q) : q[i].status = "queued"})]

\* variant: the count returned is that of the queued jobs scanned
cancel_session_jobs_counts_scanned(q, session_id, fail) ==
    LET m == MatchingJobs(q, session_id)
        rank(i) == Cardinality({j \in m : j <= i})
        raised == fail # NOTIME /\ fail <= Cardinality(m)
        done == {i \in m : ~raised \/ rank(i) < fail}
    IN [q |-> [i \in 1..Len(q) |->
                 IF i \in done THEN [q[i] EXCEPT !.status = "canceled"] ELSE q[i]],
        ret |-> IF raised THEN 0
                ELSE Cardinality({i \in 1..Len(q) : q[i].status = "queued"})]

\* backend queue.cancel_session_jobs: [q, ret].  fail = NOTIME: no broker error;
\* fail = 0: get_queue()/queue.jobs raises; fail = k > 0: the k-th job.cancel() raises.
\* Any exception is caught by the one try around the loop and 0 is returned.
cancel_session_jobs(q, session_id, fail) ==
    LET m == MatchingJobs(q, session_id)
        rank(i) == Cardinality({j \in m : j <= i})
        raised == fail # NOTIME /\ fail <= Cardinality(m)
        done == {i \in m : ~raised \/ rank(i) < fail}
    IN [q |-> [i \in 1..Len(q) |->
                 IF i \in done THEN [q[i] EXCEPT !.status = "canceled"] ELSE q[i]],
        ret |-> IF raised THEN 0 ELSE Cardinality(done)]

\* ---------------------------------------------------------------- routes

dbvars == <<users, authSessions, devices, sessions, events, attempts>>

\* routes/devices.py register_device_endpoint
register_device_endpoint(bearer, device_id, fresh) ==
    /\ fresh \notin DOMAIN devices
    /\ LET a == get_request_user_id(bearer, TRUE) IN
       IF a.code # 200
       THEN /\ resp' = Resp("register_device", bearer, 401, NULL, device_id, {})
            /\ UNCHANGED devices
       ELSE LET r == register_device(devices, device_id, a.user, now, fresh) IN
            IF r.ret = "ValueError"
            THEN /\ resp' = Resp("register_device", bearer, 404, NULL, device_id, {})
                 /\ UNCHANGED devices
            ELSE /\ devices' = r.db
                 /\ resp' = Resp("register_device", bearer, 200, NULL, r.ret, {r.db[r.ret]})
    /\ UNCHANGED <<now, authRequired, users, authSessions, sessions, events, queue,
                   worker, attempts, tg, uploads, inflight>>

\* routes/sessions.py start_session
start_session(bearer, device_id, fresh) ==
    /\ fresh \notin DOMAIN sessions
    /\ LET a == get_request_user_id(bearer, TRUE) IN
       IF a.code # 200
       THEN /\ resp' = Resp("start_session", bearer, 401, NULL, NULL, {})
            /\ UNCHANGED sessions
       ELSE LET r == create_session(sessions, device_id, a.user, fresh) IN
            IF r.ret = NULL
            THEN /\ resp' = Resp("start_session", bearer, 404, NULL, NULL, {})
                 /\ UNCHANGED sessions
            ELSE /\ sessions' = r.db
                 /\ resp' = Resp("start_session", bearer, 200, r.ret, r.ret, {r.db[r.ret]})
    /\ UNCHANGED <<now, authRequired, users, authSessions, devices, events, queue,
                   worker, attempts, tg, uploads, inflight>>

\* routes/sessions.py stop_session_endpoint
stop_session_endpoint(bearer, session_id) ==
    /\ LET a == get_request_user_id(bearer, TRUE) IN
       IF a.code # 200
       THEN /\ resp' = Resp("stop_session", bearer, 401, session_id, session_id, {})
            /\ UNCHANGED sessions
       ELSE LET r == stop_session(sessions, session_id, a.user, now) IN
            IF r.ret = NULL
            THEN /\ resp' = Resp("stop_session", bearer, 404, session_id, session_id, {})
                 /\ UNCHANGED sessions
            ELSE /\ sessions' = r.db
                 /\ resp' = Resp("stop_session", bearer, 200, session_id, session_id, {r.db[session_id]})
    /\ UNCHANGED <<now, authRequired, users, authSessions, devices, events, queue,
                   worker, attempts, tg, uploads, inflight>>

\* routes/sessions.py force_stop_session_endpoint
force_stop_session_endpoint(bearer, session_id, fail) ==
    /\ LET a == get_request_user_id(bearer, TRUE) IN
       IF a.code # 200
       THEN /\ resp' = Resp("force_stop", bearer, 401, session_id, session_id, {})
            /\ UNCHANGED <<sessions, events, queue>>
       ELSE LET r == stop_session(sessions, session_id, a.user, now) IN
            IF r.ret = NULL
            THEN /\ resp' = Resp("force_stop", bearer, 404, session_id, session_id, {})
                 /\ UNCHANGED <<sessions, events, queue>>
            ELSE LET c == cancel_session_jobs(queue, session_id, fail)
                     d == delete_processing_events_for_session(events, session_id, a.user)
                 IN /\ sessions' = r.db
                    /\ queue' = c.q
                    /\ events' = d.db
                    /\ resp' = [Resp("force_stop", bearer, 200, session_id, session_id, {r.db[session_id]})
                                  EXCEPT !.dropped_processing_events = d.ret,
                                         !.dropped_queued_jobs = c.ret]
    /\ UNCHANGED <<now, authRequired, users, authSessions, devices, worker, attempts, tg, uploads,
                   inflight>>

\* the clip target initiate hands out: cloud (config loaded, container ready) or relay
UploadInfo(cloud) ==
    IF cloud THEN [clip_container |-> "clips", clip_uri |-> "blob-url"]
    ELSE [clip_container |-> "local", clip_uri |-> "local://blob"]

\* routes/events.py create_event_endpoint: no user is read from the request
create_event_endpoint(bearer, session_id, device_id, fresh) ==
    /\ fresh \notin DOMAIN events
    /\ LET r == create_event(events, session_id, device_id, "client-uri", NULL, NULL, NULL,
                             fresh) IN
       IF r.ret = NULL
       THEN /\ resp' = Resp("create_event", bearer, 404, session_id, NULL, {})
            /\ UNCHANGED events
       ELSE /\ events' = r.db
            /\ resp' = Resp("create_event", bearer, 200, session_id, r.ret, {r.db[r.ret]})
    /\ UNCHANGED <<now, authRequired, users, authSessions, devices, sessions, queue,
                   worker, attempts, tg, uploads, inflight>>

\* routes/events.py initiate_upload_endpoint
initiate_upload_endpoint(bearer, event_id, session_id, device_id, cloud, fresh) ==
    /\ fresh \notin DOMAIN events
    /\ LET id == IF event_id # NULL THEN event_id ELSE fresh
           info == UploadInfo(cloud)
           r == create_event(events, session_id, device_id, info.clip_uri, id,
                             info.clip_container, NULL, fresh)
       IN IF r.ret = "ValueError"
          THEN /\ resp' = Resp("initiate_upload", bearer, 409, session_id, id, {})
               /\ UNCHANGED events
          ELSE IF r.ret = NULL
          THEN /\ resp' = Resp("initiate_upload", bearer, 404, session_id, id, {})
               /\ UNCHANGED events
          ELSE /\ events' = r.db
               /\ resp' = Resp("initiate_upload", bearer, 200, session_id, id, {r.db[r.ret]})
    /\ UNCHANGED <<now, authRequired, users, authSessions, devices, sessions, queue,
                   worker, attempts, tg, uploads, inflight>>

\* the values of EventModel.clip_blob_name: the name build_blob_name gives, a name
\* with a ".." that stays under the root, one that climbs out of it, an absolute path
BlobNames == {"blob", "sub/../blob", "../escape", "/abs/escape"}

\* the upload root, resolved
UploadRoot == "/root"

\* (upload_root / blob_name).resolve(): [dir, path]
ResolveUploadPath(blob_name) ==
    CASE blob_name = "../escape" -> [dir |-> "/", path |-> "/escape"]
      [] blob_name = "/abs/escape" -> [dir |-> "/abs", path |-> "/abs/escape"]
      [] OTHER -> [dir |-> UploadRoot, path |-> "/root/blob"]

\* variant: every target passes for a path under the root
relative_to_upload_root_unchecked(target) == TRUE

\* target_path.relative_to(upload_root) does not raise
relative_to_upload_root(target) == target.dir = UploadRoot

\* an empty upload directory
NoUploads == [dirs |-> {}, files |-> {}]

\* routes/events.py upload_clip_endpoint (relay upload)
upload_clip_endpoint(bearer, event_id) ==
    /\ IF get_event(events, event_id, NULL) = NULL
       THEN /\ resp' = Resp("upload_clip", bearer, 404, NULL, event_id, {})
            /\ UNCHANGED <<events, uploads>>
       ELSE LET blob_name == IF events[event_id].clip_blob_name # NULL
                             THEN events[event_id].clip_blob_name ELSE "blob"
                target_path == ResolveUploadPath(blob_name)
            IN IF ~relative_to_upload_root(target_path)
               THEN /\ resp' = Resp("upload_clip", bearer, 400, NULL, event_id, {})
                    /\ UNCHANGED <<events, uploads>>
               ELSE LET r == mark_event_clip_uploaded_via_local_api(events, event_id,
                                                                    blob_name, NULL) IN
                    /\ uploads' = [dirs |-> uploads.dirs \cup {target_path.dir},
                                   files |-> uploads.files \cup {target_path.path}]
                    /\ events' = r.db
                    /\ resp' = Resp("upload_clip", bearer, 201, NULL, event_id, {})
    /\ UNCHANGED <<now, authRequired, users, authSessions, devices, sessions, queue,
                   worker, attempts, tg, inflight>>

\* a write to EventModel.clip_blob_name made on the database itself
set_clip_blob_name_call(event_id, blob_name) ==
    /\ Has(events, event_id)
    /\ events' = [events EXCEPT ![event_id].clip_blob_name = blob_name]
    /\ resp' = NoResp("set_clip_blob_name")
    /\ UNCHANGED <<now, authRequired, users, authSessions, devices, sessions, queue,
                   worker, attempts, tg, uploads, inflight>>

\* variant: the call binds and the job is enqueued
finalize_enqueue_call_enqueues(q, event_id, session_id, clip_container, broker_up) ==
    LET r == enqueue_inference_job(q, event_id, session_id, "blob", clip_container, NULL,
                                   broker_up)
    IN [q |-> r.q, ret |-> r.ret, raised |-> FALSE]

\* The call finalize makes: enqueue_inference_job(event_id=, session_id=, device_id=,
\* clip_blob_name=, clip_container=, clip_mime=, analysis_prompt=).  The function
\* (queue.py 22-29) has no device_id and no clip_mime parameter, so Python raises
\* TypeError when binding the arguments, before the function's try block is entered:
\* nothing is enqueued and the exception leaves the handler (HTTP 500).
finalize_enqueue_call(q, event_id, session_id, clip_container, broker_up) ==
    [q |-> q, ret |-> 0, raised |-> TRUE]

\* routes/events.py finalize_upload_endpoint
finalize_upload_endpoint(bearer, event_id, etag, broker_up) ==
    /\ LET r == mark_event_clip_uploaded(events, event_id, etag, NULL, now) IN
       IF r.ret = NULL
       THEN /\ resp' = Resp("finalize_upload", bearer, 404, NULL, event_id, {})
            /\ UNCHANGED <<events, queue>>
       ELSE LET ev == r.db[event_id]
                c == finalize_enqueue_call(queue, event_id, ev.session_id,
                                           ev.clip_container, broker_up)
            IN /\ events' = r.db
               /\ queue' = c.q
               /\ resp' = IF c.raised
                          THEN Resp("finalize_upload", bearer, 500, NULL, event_id, {})
                          ELSE Resp("finalize_upload", bearer, 200, NULL, event_id, {ev})
    /\ UNCHANGED <<now, authRequired, users, authSessions, devices, sessions,
                   worker, attempts, tg, uploads, inflight>>

\* request bodies of POST /events/{id}/summary (EventSummaryRequest)
ErrorSummary ==
    [summary |-> "Processing failed", label |-> "error", confidence |-> 0,
     should_notify |-> "false"]
TestSummary ==
    [summary |-> "Critical flow test summary", label |-> "test", confidence |-> 100,
     should_notify |-> "true"]
VerdictSummary(notify) ==
    [summary |-> "verdict", label |-> "label", confidence |-> 50,
     should_notify |-> IF notify THEN "true" ELSE "false"]
SummaryRequests == {ErrorSummary, TestSummary, VerdictSummary(TRUE), VerdictSummary(FALSE)}
\* a body with "summary": "" and one with "summary": null or no summary at all
EmptySummary == [VerdictSummary(FALSE) EXCEPT !.summary = ""]
NullSummary == [VerdictSummary(FALSE) EXCEPT !.summary = NULL]

\* routes/events.py update_event_summary_endpoint
update_event_summary_endpoint(bearer, event_id, p) ==
    /\ LET r == update_event_summary(events, event_id, p) IN
       IF p.summary = NULL    \* EventSummaryRequest.summary is a required str
       THEN /\ resp' = Resp("update_event_summary", bearer, 422, NULL, event_id, {})
            /\ UNCHANGED events
       ELSE IF r.ret = NULL
       THEN /\ resp' = Resp("update_event_summary", bearer, 404, NULL, event_id, {})
            /\ UNCHANGED events
       ELSE /\ events' = r.db
            /\ resp' = Resp("update_event_summary", bearer, 200, NULL, event_id,
                            {r.db[event_id]})
    /\ UNCHANGED <<now, authRequired, users, authSessions, devices, sessions, queue,
                   worker, attempts, tg, uploads, inflight>>

\* store.list_sessions
list_sessions(sess, device_id, user_id) ==
    {s \in DOMAIN sess : /\ (user_id # NULL => sess[s].user_id = user_id)
                         /\ (device_id # NULL => sess[s].device_id = device_id)}

\* routes/sessions.py list_sessions_endpoint
list_sessions_endpoint(bearer, device_id) ==
    /\ LET a == get_request_user_id(bearer, TRUE) IN
       IF a.code # 200
       THEN resp' = Resp("list_sessions", bearer, 401, NULL, NULL, {})
       ELSE resp' = Resp("list_sessions", bearer, 200, NULL, NULL,
                         {sessions[s] : s \in list_sessions(sessions, device_id, a.user)})
    /\ UNCHANGED <<now, authRequired, users, authSessions, devices, sessions, events,
                   queue, worker, attempts, tg, uploads, inflight>>

\* routes/events.py list_events_endpoint
list_events_endpoint(bearer, session_id) ==
    /\ resp' = Resp("list_events", bearer, 200, session_id, NULL,
                    {events[e] : e \in list_events(events, session_id, NULL)})
    /\ UNCHANGED <<now, authRequired, users, authSessions, devices, sessions, events,
                   queue, worker, attempts, tg, uploads, inflight>>

\* ---------------------------------------------------------------- store.py, Telegram link

\* store.link_device_telegram_chat: the device rows after the call
link_device_telegram_chat(devs, device_id, chat_id, user_id, t) ==
    LET record == IF ~Has(devs, device_id)
                  THEN [user_id |-> user_id, created_at |-> t,
                        telegram_chat_id |-> NULL, telegram_linked_at |-> NOTIME]
                  ELSE IF user_id # NULL /\ devs[device_id].user_id = NULL
                  THEN [devs[device_id] EXCEPT !.user_id = user_id]
                  ELSE devs[device_id]
    IN Put(devs, device_id,
           [record EXCEPT !.telegram_chat_id = chat_id, !.telegram_linked_at = t])

\* store.create_telegram_link_attempt: the attempt rows after the call
create_telegram_link_attempt(atts, device_id, user_id, token_hash, expires_at, fresh) ==
    Put(atts, fresh,
        [device_id |-> device_id, user_id |-> user_id, token_hash |-> token_hash,
         status |-> "pending", expires_at |-> expires_at, linked_at |-> NOTIME,
         chat_id |-> NULL])

\* store.get_telegram_link_attempt
get_telegram_link_attempt(atts, attempt_id, user_id) ==
    IF ~Has(atts, attempt_id) THEN NULL
    ELSE IF user_id # NULL /\ atts[attempt_id].user_id # user_id THEN NULL
    ELSE attempt_id

\* store.get_telegram_link_attempt_by_token_hash: the attempt_id, or NULL
get_telegram_link_attempt_by_token_hash(atts, token_hash) ==
    IF \E a \in DOMAIN atts : atts[a].token_hash = token_hash
    THEN CHOOSE a \in DOMAIN atts : atts[a].token_hash = token_hash
    ELSE NULL

\* variant: the expiry is not written and the attempt stays pending
mark_telegram_link_attempt_expired_keeps_pending(atts, attempt_id) == atts

\* store.mark_telegram_link_attempt_expired
mark_telegram_link_attempt_expired(atts, attempt_id) ==
    [atts EXCEPT ![attempt_id].status = "expired"]

\* store.mark_telegram_link_attempt_linked
mark_telegram_link_attempt_linked(atts, attempt_id, chat_id, t) ==
    [atts EXCEPT ![attempt_id].status = "linked", ![attempt_id].linked_at = t,
                 ![attempt_id].chat_id = chat_id]

\* ---------------------------------------------------------------- routes/notifications.py

\* _hash_token: SHA-256 hex digest of the link token
hash_token(token) == <<"sha256", token>>

\* the database and the sendMessage calls a Telegram handler threads through
LinkState(devs, atts, sent) == [devices |-> devs, attempts |-> atts, sent |-> sent]

\* _send_telegram_message: one sendMessage call (an HTTP error is swallowed)
send_telegram_message(ls, chat_id, text) ==
    [ls EXCEPT !.sent = Append(ls.sent, [chat_id |-> chat_id, text |-> text])]

\* variant: an attempt counts as expired from the instant expires_at on
LinkExpiredAtDeadline(expires_at, t) == expires_at <= t

\* the comparison that decides that a pending attempt has expired
LinkExpired(expires_at, t) == expires_at < t

\* variant: a token that finds an attempt links it again, whatever its status
process_start_token_relinks(ls, chat_id_text, link_token, send_user_feedback, t) ==
    LET found == get_telegram_link_attempt_by_token_hash(ls.attempts, hash_token(link_token))
    IN IF found = NULL
       THEN [ls |-> ls, ret |-> FALSE]
       ELSE LET devs == link_device_telegram_chat(ls.devices, ls.attempts[found].device_id,
                                                  chat_id_text, NULL, t)
                linked == mark_telegram_link_attempt_linked(ls.attempts, found,
                                                            chat_id_text, t)
            IN [ls |-> send_telegram_message(
                           [ls EXCEPT !.devices = devs, !.attempts = linked],
                           chat_id_text, "connected"),
                ret |-> TRUE]

\* _process_start_token: [ls, ret]
process_start_token(ls, chat_id_text, link_token, send_user_feedback, t) ==
    LET found == get_telegram_link_attempt_by_token_hash(ls.attempts, hash_token(link_token))
    IN IF found = NULL
       THEN [ls |-> IF send_user_feedback
                    THEN send_telegram_message(ls, chat_id_text, "invalid token")
                    ELSE ls,
             ret |-> FALSE]
       ELSE LET atts == IF ls.attempts[found].status = "pending"
                           /\ LinkExpired(ls.attempts[found].expires_at, t)
                        THEN mark_telegram_link_attempt_expired(ls.attempts, found)
                        ELSE ls.attempts
                ls1 == [ls EXCEPT !.attempts = atts]
            IN IF atts[found].status = "linked"
               THEN [ls |-> IF send_user_feedback
                            THEN send_telegram_message(ls1, chat_id_text, "already linked")
                            ELSE ls1,
                     ret |-> TRUE]
               ELSE IF atts[found].status # "pending"
               THEN [ls |-> IF send_user_feedback
                            THEN send_telegram_message(ls1, chat_id_text, "token expired")
                            ELSE ls1,
                     ret |-> FALSE]
               ELSE LET devs == link_device_telegram_chat(ls1.devices, atts[found].device_id,
                                                          chat_id_text, NULL, t)
                        linked == mark_telegram_link_attempt_linked(atts, found,
                                                                    chat_id_text, t)
                    IN [ls |-> send_telegram_message(
                                   [ls1 EXCEPT !.devices = devs, !.attempts = linked],
                                   chat_id_text, "connected"),
                        ret |-> TRUE]

\* a Telegram message: chat.id (NULL when absent), the command word parsed from
\* its text, and the argument after it (NULL when absent)
Message(chat_id, command, arg) == [chat_id |-> chat_id, command |-> command, arg |-> arg]

\* variant: the handler answers the user whatever send_user_feedback says
process_telegram_message_always_feedback(ls, message, send_user_feedback, t) ==
    IF message.chat_id = NULL THEN [ls |-> ls, ret |-> FALSE]
    ELSE IF message.command # "/start" THEN [ls |-> ls, ret |-> FALSE]
    ELSE IF message.arg = NULL
    THEN [ls |-> send_telegram_message(ls, message.chat_id, "open ping watch"),
          ret |-> FALSE]
    ELSE process_start_token(ls, message.chat_id, message.arg, TRUE, t)

\* _process_telegram_message: [ls, ret]
process_telegram_message(ls, message, send_user_feedback, t) ==
    IF message.chat_id = NULL THEN [ls |-> ls, ret |-> FALSE]
    ELSE IF message.command # "/start" THEN [ls |-> ls, ret |-> FALSE]
    ELSE IF message.arg = NULL
    THEN [ls |-> IF send_user_feedback
                 THEN send_telegram_message(ls, message.chat_id, "open ping watch")
                 ELSE ls,
          ret |-> FALSE]
    ELSE process_start_token(ls, message.chat_id, message.arg, send_user_feedback, t)

\* an update of getUpdates: update_id (NOTIME when it is no integer) and the message
\* it carries, if any
Update(update_id, has_message, message) ==
    [update_id |-> update_id, has_message |-> has_message, message |-> message]

\* the loop of _sync_telegram_link_updates over the updates, in order: the link state
\* after it (user feedback is switched off on this path)
RECURSIVE ProcessUpdates(_, _, _)
ProcessUpdates(ls, updates, t) ==
    IF updates = <<>> THEN ls
    ELSE LET u == Head(updates)
             after == IF u.has_message
                      THEN process_telegram_message(ls, u.message, FALSE, t).ls
                      ELSE ls
         IN ProcessUpdates(after, Tail(updates), t)

\* max_update_id + 1 over the updates that carry an integer update_id, else the old offset
NextOffset(offset, updates) ==
    LET ids == {updates[i].update_id : i \in 1..Len(updates)} \ {NOTIME} IN
    IF ids = {} THEN offset
    ELSE (CHOOSE m \in ids : \A n \in ids : n <= m) + 1

\* the outcomes of the getUpdates exchange with Telegram
PollOutcomes == {"ok", "request_error", "conflict_then_ok", "conflict_delete_failed",
                 "conflict_retry_failed", "bad_status"}

\* variant: a retry that fails is followed by another deleteWebhook and getUpdates
telegram_sync_calls_retries_again(outcome) ==
    CASE outcome = "conflict_delete_failed" -> <<"getUpdates", "deleteWebhook">>
      [] outcome = "conflict_then_ok" -> <<"getUpdates", "deleteWebhook", "getUpdates">>
      [] outcome = "conflict_retry_failed" ->
             <<"getUpdates", "deleteWebhook", "getUpdates", "deleteWebhook", "getUpdates">>
      [] OTHER -> <<"getUpdates">>

\* _sync_telegram_link_updates lines 398-427: the Telegram methods it calls, in
\* order.  A 409 leads to one deleteWebhook and, when that succeeded, one retry;
\* whatever the retry answers (another 409, an error, a RequestError) ends the sync
telegram_sync_calls(outcome) ==
    CASE outcome = "conflict_delete_failed" -> <<"getUpdates", "deleteWebhook">>
      [] outcome \in {"conflict_then_ok", "conflict_retry_failed"} ->
             <<"getUpdates", "deleteWebhook", "getUpdates">>
      [] OTHER -> <<"getUpdates">>

CallsOf(calls, method) == Len(SelectSeq(calls, LAMBDA c : c = method))

\* _sync_telegram_link_updates: [ls, offset, calls]; calls counts the getUpdates requests
sync_telegram_link_updates(ls, offset, outcome, updates, t) ==
    IF outcome \in {"ok", "conflict_then_ok"}
    THEN [ls |-> ProcessUpdates(ls, updates, t),
          offset |-> NextOffset(offset, updates),
          calls |-> CallsOf(telegram_sync_calls(outcome), "getUpdates")]
    ELSE [ls |-> ls, offset |-> offset,
          calls |-> CallsOf(telegram_sync_calls(outcome), "getUpdates")]

\* the body of a link/status or link/start answer
LinkBody(status, linked) == {[status |-> status, linked |-> linked]}

\* routes/notifications.py telegram_webhook.  bot_token: TELEGRAM_BOT_TOKEN is set;
\* secret_ok: no TELEGRAM_WEBHOOK_SECRET is set or the header equals it
telegram_webhook(bot_token, secret_ok, has_message, message) ==
    /\ LET ls == LinkState(devices, attempts, <<>>)
           r == IF bot_token /\ secret_ok /\ has_message
                THEN process_telegram_message(ls, message, TRUE, now).ls
                ELSE ls
       IN /\ devices' = r.devices
          /\ attempts' = r.attempts
          /\ tg' = [tg EXCEPT !.sent = r.sent, !.polls = 0]
          /\ resp' = IF bot_token /\ ~secret_ok
                     THEN Resp("telegram_webhook", NoToken, 401, NULL, NULL, {})
                     ELSE Resp("telegram_webhook", NoToken, 200, NULL, NULL, {})
    /\ UNCHANGED <<now, authRequired, users, authSessions, sessions, events, queue, worker, uploads,
                   inflight>>

\* what _telegram_get_chat can end in: 200 with ok, 400 / 403, another status, RequestError
GetChatOutcomes == {"ok", "unreachable_chat", "server_error", "request_error"}

\* _readiness_for_device: the status of the TelegramReadinessResponse
readiness_for_device(devs, device_id, get_chat) ==
    IF ~Has(devs, device_id) THEN "unknown_device"
    ELSE IF devs[device_id].telegram_chat_id = NULL THEN "needs_user_action"
    ELSE CASE get_chat = "ok" -> "ready"
           [] get_chat = "unreachable_chat" -> "needs_user_action"
           [] OTHER -> "error"

\* routes/notifications.py telegram_readiness: the handler has no Request parameter
\* and reads no Authorization header
telegram_readiness(bearer, bot_token, device_id, get_chat) ==
    /\ resp' = Resp("telegram_readiness", bearer, 200, NULL, device_id,
                    {[status |-> IF ~bot_token THEN "not_configured"
                                 ELSE readiness_for_device(devices, device_id, get_chat)]})
    /\ UNCHANGED <<now, authRequired, users, authSessions, devices, sessions, events,
                   queue, worker, attempts, tg, uploads, inflight>>

\* routes/notifications.py telegram_link_status
telegram_link_status(bot_token, device_id, attempt_id, outcome, updates) ==
    /\ LET ls == LinkState(devices, attempts, <<>>)
           stale == \/ get_telegram_link_attempt(attempts, attempt_id, NULL) = NULL
                    \/ attempts[attempt_id].device_id # device_id
           answer(status, linked) ==
               Resp("telegram_link_status", NoToken, 200, NULL, attempt_id,
                    LinkBody(status, linked))
       IN IF ~bot_token
          THEN /\ resp' = answer("not_configured", FALSE)
               /\ tg' = [tg EXCEPT !.sent = <<>>, !.polls = 0]
               /\ UNCHANGED <<devices, attempts>>
          ELSE IF ~Has(devices, device_id)
          THEN /\ resp' = answer("unknown_device", FALSE)
               /\ tg' = [tg EXCEPT !.sent = <<>>, !.polls = 0]
               /\ UNCHANGED <<devices, attempts>>
          ELSE IF stale
          THEN /\ resp' = answer("not_found", FALSE)
               /\ tg' = [tg EXCEPT !.sent = <<>>, !.polls = 0]
               /\ UNCHANGED <<devices, attempts>>
          ELSE LET pending == attempts[attempt_id].status = "pending"
                   sync == IF pending
                           THEN sync_telegram_link_updates(ls, tg.offset, outcome, updates, now)
                           ELSE [ls |-> ls, offset |-> tg.offset, calls |-> 0]
                   atts == sync.ls.attempts
                   expire == /\ atts[attempt_id].status = "pending"
                             /\ LinkExpired(atts[attempt_id].expires_at, now)
                   final == IF expire
                            THEN mark_telegram_link_attempt_expired(atts, attempt_id)
                            ELSE atts
               IN /\ devices' = sync.ls.devices
                  /\ attempts' = final
                  /\ tg' = [sent |-> sync.ls.sent, offset |-> sync.offset,
                            polls |-> sync.calls]
                  /\ resp' = IF final[attempt_id].status = "linked"
                             THEN answer("ready", TRUE)
                             ELSE IF final[attempt_id].status = "expired"
                             THEN answer("expired", FALSE)
                             ELSE answer("pending", FALSE)
    /\ UNCHANGED <<now, authRequired, users, authSessions, sessions, events, queue, worker, uploads,
                   inflight>>

\* The call link/start makes: create_telegram_link_attempt(db, device_id=, token_hash=,
\* expires_at=).  The function (store.py 188-195) declares user_id keyword-only without
\* a default, so Python raises TypeError when binding the arguments: no row is
\* written and the exception leaves the handler (HTTP 500).
link_start_create_call(atts, device_id, token_hash, expires_at) ==
    [db |-> atts, raised |-> TRUE]

\* routes/notifications.py telegram_link_start.  onboarding: TELEGRAM_BOT_ONBOARDING_URL
\* is set.  The handler reads no Authorization header.
telegram_link_start(bearer, bot_token, onboarding, device_id, link_token) ==
    /\ LET answer(code, status) ==
               Resp("telegram_link_start", bearer, code, NULL, device_id,
                    IF code = 200 THEN LinkBody(status, FALSE) ELSE {})
       IN IF ~bot_token
          THEN resp' = answer(200, "not_configured") /\ UNCHANGED attempts
          ELSE IF ~Has(devices, device_id)
          THEN resp' = answer(200, "unknown_device") /\ UNCHANGED attempts
          ELSE IF ~onboarding
          THEN resp' = answer(200, "error") /\ UNCHANGED attempts
          ELSE LET c == link_start_create_call(attempts, device_id, hash_token(link_token),
                                               now + LinkTtl)
               IN /\ attempts' = c.db
                  /\ resp' = IF c.raised THEN answer(500, "error")
                             ELSE answer(200, "pending")
    /\ tg' = [tg EXCEPT !.sent = <<>>, !.polls = 0]
    /\ UNCHANGED <<now, authRequired, users, authSessions, devices, sessions, events,
                   queue, worker, uploads, inflight>>

\* store.create_telegram_link_attempt called with the parameters it declares, for a
\* freshly generated link token
create_telegram_link_attempt_call(device_id, user_id, link_token, fresh) ==
    /\ fresh \notin DOMAIN attempts
    /\ get_telegram_link_attempt_by_token_hash(attempts, hash_token(link_token)) = NULL
    /\ attempts' = create_telegram_link_attempt(attempts, device_id, user_id,
                                                hash_token(link_token), now + LinkTtl, fresh)
    /\ resp' = Resp("create_telegram_link_attempt", NoToken, 0, NULL, fresh, {})
    /\ UNCHANGED <<now, authRequired, users, authSessions, devices, sessions, events,
                   queue, worker, tg, uploads, inflight>>

\* ---------------------------------------------------------------- direct store / queue calls

\* store.create_user, called outside a request
create_user_call(u) ==
    /\ u \notin users
    /\ users' = create_user(u)
    /\ resp' = NoResp("create_user")
    /\ UNCHANGED <<now, authRequired, authSessions, devices, sessions, events, queue,
                   worker, attempts, tg, uploads, inflight>>

\* store.create_auth_session for a fresh random token (token_hash is unique)
create_auth_session_call(token, u, expires_at) ==
    /\ token \notin DOMAIN authSessions
    /\ u \in users
    /\ authSessions' = create_auth_session(token, u, expires_at)
    /\ resp' = NoResp("create_auth_session")
    /\ UNCHANGED <<now, authRequired, users, devices, sessions, events, queue,
                   worker, attempts, tg, uploads, inflight>>

\* queue.enqueue_inference_job called with the parameters it declares
enqueue_inference_job_call(event_id, session_id, broker_up) ==
    /\ Len(queue) < MaxJobs
    /\ queue' = enqueue_inference_job(queue, event_id, session_id, "blob", "clips", NULL,
                                      broker_up).q
    /\ resp' = NoResp("enqueue_inference_job")
    /\ UNCHANGED <<now, authRequired, users, authSessions, devices, sessions, events,
                   worker, attempts, tg, uploads, inflight>>

\* the clock advances
Tick ==
    /\ now < MaxTime
    /\ now' = now + 1
    /\ resp' = NoResp("tick")
    /\ UNCHANGED <<authRequired, users, authSessions, devices, sessions, events, queue,
                   worker, attempts, tg, uploads, inflight>>

\* ---------------------------------------------------------------- worker/app/tasks.py

NoPost == [attempted |-> FALSE, delivered |-> FALSE, body |-> {}]

\* ---------------------------------------------------------------- worker/app/inference.py

\* _ALERT_RULE_CACHE_LIMIT, 256 in the source
ALERT_RULE_CACHE_LIMIT == 2

\* user prompts: blank ones, and ones that differ in case and surrounding blanks
Prompts == {"", " ", "Dog", " dog ", "cat", "fox"}

\* str.strip on the prompts
Strip(p) ==
    CASE p = " " -> ""
      [] p = " dog " -> "dog"
      [] OTHER -> p

\* str.lower on the stripped prompts
Lower(p) == IF p = "Dog" THEN "dog" ELSE p

\* _alert_rule_cache_key
alert_rule_cache_key(user_prompt) == Lower(Strip(user_prompt))

DEFAULT_RULE_SET == [target_entities |-> <<>>, sensitivity |-> "medium"]

\* what a text completion answers: prose, a rule object, a rule object whose
\* sensitivity is none of low / medium / high
Completions == {"not json", "json dog HIGH", "json loud"}

\* parse_alert_rule_set with _normalize_rule_set
parse_alert_rule_set(response_text) ==
    CASE response_text = "json dog HIGH" ->
             [target_entities |-> <<"dog">>, sensitivity |-> "high"]
      [] response_text = "json loud" -> DEFAULT_RULE_SET
      [] OTHER -> DEFAULT_RULE_SET

\* Python's None where a rule set is expected
NoRules == [target_entities |-> <<>>, sensitivity |-> NULL]

\* _get_cached_alert_rules: NoRules for a miss
get_cached_alert_rules(cache, user_prompt) ==
    IF alert_rule_cache_key(user_prompt) \in DOMAIN cache
    THEN cache[alert_rule_cache_key(user_prompt)] ELSE NoRules

\* variant: the rule set is stored under the prompt as typed
set_cached_alert_rules_raw_key(cache, user_prompt, rule_set) ==
    LET kept == IF Cardinality(DOMAIN cache) >= ALERT_RULE_CACHE_LIMIT THEN <<>> ELSE cache
    IN [k \in DOMAIN kept \cup {user_prompt} |->
           IF k = user_prompt THEN rule_set ELSE kept[k]]

\* variant: the cache is cleared only once it holds more than the limit
set_cached_alert_rules_clears_late(cache, user_prompt, rule_set) ==
    LET kept == IF Cardinality(DOMAIN cache) > ALERT_RULE_CACHE_LIMIT THEN <<>> ELSE cache
    IN Put(kept, alert_rule_cache_key(user_prompt), rule_set)

\* _set_cached_alert_rules: a full cache is cleared before the insertion
set_cached_alert_rules(cache, user_prompt, rule_set) ==
    LET kept == IF Cardinality(DOMAIN cache) >= ALERT_RULE_CACHE_LIMIT THEN <<>> ELSE cache
    IN Put(kept, alert_rule_cache_key(user_prompt), rule_set)

\* a provider call either raises or answers
TextOutcomes == {"error"} \cup Completions

\* normalize_alert_instructions: [cache, ret, calls]; calls lists the provider
\* calls in the order they are made.  nv_text / hf_text: what the provider's text
\* completion does if it is called
normalize_alert_instructions(cache, user_prompt, nvidia_token, hf_token, nv_text, hf_text) ==
    LET prompt == Strip(user_prompt)
        cached == get_cached_alert_rules(cache, prompt)
        Done(rule_set, calls) ==
            [cache |-> set_cached_alert_rules(cache, prompt, rule_set),
             ret |-> rule_set, calls |-> calls]
        nv_calls == IF nvidia_token THEN <<"nvidia_text">> ELSE <<>>
    IN IF prompt = "" THEN [cache |-> cache, ret |-> DEFAULT_RULE_SET, calls |-> <<>>]
       ELSE IF cached # NoRules THEN [cache |-> cache, ret |-> cached, calls |-> <<>>]
       ELSE IF nvidia_token /\ nv_text # "error"
       THEN Done(parse_alert_rule_set(nv_text), nv_calls)
       ELSE IF hf_token /\ hf_text # "error"
       THEN Done(parse_alert_rule_set(hf_text), Append(nv_calls, "hf_text"))
       ELSE Done(DEFAULT_RULE_SET,
                 IF hf_token THEN Append(nv_calls, "hf_text") ELSE nv_calls)

\* what the four provider calls of one run_inference do if they are made
ProviderOutcomes(nv_text, hf_text, nv_video, hf_image) ==
    [nv_text |-> nv_text, hf_text |-> hf_text, nv_video |-> nv_video, hf_image |-> hf_image]

\* no run_inference call yet
NoInference ==
    [raised |-> NULL, provider |-> NULL, calls |-> <<>>, key |-> NULL, rule_set |-> NoRules]

\* variant: with both tokens configured the image-mode provider is asked first
run_inference_image_first(cache, clip_data, user_prompt, frames, nvidia_token, hf_token, o) ==
    LET n == IF Strip(user_prompt) # ""
             THEN normalize_alert_instructions(cache, user_prompt, nvidia_token, hf_token,
                                               o.nv_text, o.hf_text)
             ELSE [cache |-> cache, ret |-> NoRules, calls |-> <<>>]
        hf_calls == IF hf_token /\ frames THEN Append(n.calls, "hf_image") ELSE n.calls
        Out(raised, provider, calls) ==
            [cache |-> n.cache, raised |-> raised, provider |-> provider, calls |-> calls,
             key |-> alert_rule_cache_key(user_prompt), rule_set |-> n.ret]
    IN IF ~clip_data \/ (~nvidia_token /\ ~hf_token)
       THEN [cache |-> cache, raised |-> "No input", provider |-> NULL, calls |-> <<>>,
             key |-> alert_rule_cache_key(user_prompt), rule_set |-> NoRules]
       ELSE IF hf_token /\ frames /\ o.hf_image = "ok" THEN Out(NULL, "huggingface", hf_calls)
       ELSE IF nvidia_token
       THEN IF o.nv_video = "ok"
            THEN Out(NULL, "nvidia", Append(hf_calls, "nvidia_video"))
            ELSE Out("NVIDIA error", NULL, Append(hf_calls, "nvidia_video"))
       ELSE Out("Hugging Face error", NULL, hf_calls)

\* run_inference: [cache, raised, provider, calls, key, rule_set].  clip_data and
\* frames: the clip bytes / the extracted frames are non-empty; raised names the
\* exception, NULL for a returned InferenceResult
run_inference(cache, clip_data, user_prompt, frames, nvidia_token, hf_token, o) ==
    LET n == IF Strip(user_prompt) # ""
             THEN normalize_alert_instructions(cache, user_prompt, nvidia_token, hf_token,
                                               o.nv_text, o.hf_text)
             ELSE [cache |-> cache, ret |-> NoRules, calls |-> <<>>]
        nv_calls == IF nvidia_token THEN Append(n.calls, "nvidia_video") ELSE n.calls
        Out(raised, provider, calls) ==
            [cache |-> n.cache, raised |-> raised, provider |-> provider, calls |-> calls,
             key |-> alert_rule_cache_key(user_prompt), rule_set |-> n.ret]
    IN IF ~clip_data
       THEN [cache |-> cache, raised |-> "No clip data", provider |-> NULL, calls |-> <<>>,
             key |-> alert_rule_cache_key(user_prompt), rule_set |-> NoRules]
       ELSE IF ~nvidia_token /\ ~hf_token
       THEN [cache |-> cache, raised |-> "No credentials", provider |-> NULL, calls |-> <<>>,
             key |-> alert_rule_cache_key(user_prompt), rule_set |-> NoRules]
       ELSE IF nvidia_token /\ o.nv_video = "ok" THEN Out(NULL, "nvidia", nv_calls)
       ELSE IF hf_token
       THEN IF ~frames
            THEN Out(IF nvidia_token THEN "NVIDIA failed and no frames" ELSE "No frames",
                     NULL, nv_calls)
            ELSE IF o.hf_image = "ok"
            THEN Out(NULL, "huggingface", Append(nv_calls, "hf_image"))
            ELSE Out("Hugging Face error", NULL, Append(nv_calls, "hf_image"))
       ELSE Out("NVIDIA error", NULL, nv_calls)

\* the record of one run_inference call kept by the worker
InferenceRecord(r) ==
    [raised |-> r.raised, provider |-> r.provider, calls |-> r.calls, key |-> r.key,
     rule_set |-> r.rule_set]

IdleWorker ==
    [pc |-> "idle", job |-> 0, event_id |-> NULL, test_mode |-> FALSE,
     notify |-> FALSE, cause |-> NULL, verdict_post |-> NoPost, error_post |-> NoPost,
     dispatched |-> FALSE, result |-> NULL,
     notification_delivery |-> [telegram_sent |-> FALSE, webhook_sent |-> FALSE],
     failed_channels |-> {},
     rule_cache |-> <<>>, inference |-> NoInference]

\* the first queued job, which the rq worker dequeues
NextJob(q) ==
    LET queued == {i \in 1..Len(q) : q[i].status = "queued"} IN
    IF queued = {} THEN 0 ELSE CHOOSE i \in queued : \A j \in queued : i <= j

\* variant: no summary post is ever delivered
post_event_summary_never_delivered(evs, event_id, p, api_up) == [db |-> evs, ok |-> FALSE]

\* tasks.post_event_summary: the POST reaches update_event_summary_endpoint when the API
\* answers; raise_for_status raises on 404; [db, ok]
post_event_summary(evs, event_id, p, api_up) ==
    IF ~api_up THEN [db |-> evs, ok |-> FALSE]
    ELSE LET r == update_event_summary(evs, event_id, p) IN
         [db |-> r.db, ok |-> r.ret # NULL]

\* process_clip returns: the job is finished, the worker is idle
process_clip_return(w, result) == [w EXCEPT !.pc = "idle", !.result = result]

\* process_clip lines 121-133 (guard) and 136 (test mode), run when the job is dequeued
process_clip_begin(job, event_id, test_mode) ==
    LET w == [IdleWorker EXCEPT !.job = job, !.event_id = event_id,
                                !.test_mode = test_mode]
    IN IF event_id = ""
       THEN process_clip_return([w EXCEPT !.cause = "missing event_id"], "error")
       ELSE IF test_mode THEN [w EXCEPT !.pc = "writeback", !.notify = TRUE]
       ELSE [w EXCEPT !.pc = "download"]

\* variant: the except branch returns without posting the fallback summary
process_clip_except_silent(w, evs, api_up) ==
    [db |-> evs, w |-> process_clip_return(w, "error")]

\* process_clip lines 293-324: the except branch posts the fallback summary, swallows
\* a failure of that post, and returns status error: [db, w]
process_clip_except(w, evs, api_up) ==
    LET post == post_event_summary(evs, w.event_id, ErrorSummary, api_up) IN
    [db |-> post.db,
     w |-> process_clip_return(
               [w EXCEPT !.error_post = [attempted |-> TRUE, delivered |-> post.ok,
                                         body |-> {ErrorSummary}]],
               "error")]

\* variant: the dispatcher is invoked whatever should_notify says
process_clip_after_writeback_always_dispatches(w) ==
    LET posted == [w EXCEPT !.verdict_post = [attempted |-> TRUE, delivered |-> TRUE,
                                              body |-> {}]]
    IN IF w.test_mode THEN process_clip_return(posted, "done")
       ELSE [posted EXCEPT !.pc = "notify"]

\* after a successful writeback: test mode returns, otherwise notify or return
process_clip_after_writeback(w) ==
    LET posted == [w EXCEPT !.verdict_post = [attempted |-> TRUE, delivered |-> TRUE,
                                              body |-> {}]]
    IN IF w.test_mode THEN process_clip_return(posted, "done")
       ELSE IF w.notify THEN [posted EXCEPT !.pc = "notify"]
       ELSE process_clip_return(posted, "done")

FinishJob(q, job) == [q EXCEPT ![job].status = "finished"]

\* run_inference called in the worker process (process_clip line 204, or a test)
run_inference_call(clip_data, user_prompt, frames, nvidia_token, hf_token, o) ==
    LET r == run_inference(worker.rule_cache, clip_data, user_prompt, frames,
                           nvidia_token, hf_token, o)
    IN /\ worker' = [worker EXCEPT !.rule_cache = r.cache, !.inference = InferenceRecord(r)]
       /\ resp' = NoResp("run_inference")
       /\ UNCHANGED <<now, authRequired, users, authSessions, devices, sessions, events,
                      queue, attempts, tg, uploads, inflight>>

\* normalize_alert_instructions called on its own in the worker process
normalize_alert_instructions_call(user_prompt, nvidia_token, hf_token, nv_text, hf_text) ==
    LET n == normalize_alert_instructions(worker.rule_cache, user_prompt, nvidia_token,
                                          hf_token, nv_text, hf_text)
    IN /\ worker' = [worker EXCEPT !.rule_cache = n.cache,
                        !.inference = [NoInference EXCEPT !.calls = n.calls,
                                          !.key = alert_rule_cache_key(user_prompt),
                                          !.rule_set = n.ret]]
       /\ resp' = NoResp("normalize_alert_instructions")
       /\ UNCHANGED <<now, authRequired, users, authSessions, devices, sessions, events,
                      queue, attempts, tg, uploads, inflight>>

\* the rq worker takes the next job and process_clip starts
WorkerDequeue(test_mode) ==
    /\ worker.pc = "idle"
    /\ NextJob(queue) # 0
    /\ LET job == NextJob(queue)
           w == process_clip_begin(job, queue[job].payload.event_id, test_mode)
       IN /\ worker' = [w EXCEPT !.rule_cache = worker.rule_cache,
                                  !.inference = worker.inference]
          /\ queue' = [queue EXCEPT ![job].status =
                          IF w.pc = "idle" THEN "finished" ELSE "started"]
    /\ resp' = NoResp("worker_dequeue")
    /\ UNCHANGED <<now, authRequired, users, authSessions, devices, sessions, events,
                   attempts, tg, uploads, inflight>>

\* process_clip step 1: download_clip_data
WorkerDownload(ok) ==
    /\ worker.pc = "download"
    /\ worker' = IF ok THEN [worker EXCEPT !.pc = "inference"]
                 ELSE [worker EXCEPT !.pc = "errorpost", !.cause = "download"]
    /\ resp' = NoResp("worker_download")
    /\ UNCHANGED <<now, authRequired, users, authSessions, devices, sessions, events,
                   queue, attempts, tg, uploads, inflight>>

\* process_clip steps 2-3: frames (best effort) and run_inference
WorkerInference(outcome) ==
    /\ worker.pc = "inference"
    /\ worker' = IF outcome = "fail"
                 THEN [worker EXCEPT !.pc = "errorpost", !.cause = "inference"]
                 ELSE [worker EXCEPT !.pc = "writeback", !.notify = (outcome = "notify")]
    /\ resp' = NoResp("worker_inference")
    /\ UNCHANGED <<now, authRequired, users, authSessions, devices, sessions, events,
                   queue, attempts, tg, uploads, inflight>>

\* process_clip step 4 (and the test-mode post): POST /events/{id}/summary
WorkerWriteback(api_up) ==
    /\ worker.pc = "writeback"
    /\ LET p == IF worker.test_mode THEN TestSummary ELSE VerdictSummary(worker.notify)
           r == post_event_summary(events, worker.event_id, p, api_up)
           w == IF r.ok THEN process_clip_after_writeback(worker)
                ELSE [worker EXCEPT !.pc = "errorpost", !.cause = "writeback"]
       IN /\ events' = r.db
          /\ worker' = w
          /\ queue' = IF w.pc = "idle" THEN FinishJob(queue, worker.job) ELSE queue
    /\ resp' = NoResp("worker_writeback")
    /\ UNCHANGED <<now, authRequired, users, authSessions, devices, sessions,
                   attempts, tg, uploads, inflight>>

\* ---------------------------------------------------------------- worker/app/notifications.py

\* what one HTTP send of a channel can end in: 2xx, raise_for_status raising
\* HTTPStatusError, httpx raising RequestError
ChannelOutcomes == {"success", "http_error", "request_error"}

\* _send_telegram_notification: [sent, raised, posted].  token: TELEGRAM_BOT_TOKEN is
\* set; chat: _resolve_chat_id_for_payload found a chat id; the except clauses re-raise
send_telegram_notification(token, chat, outcome) ==
    IF ~token \/ ~chat THEN [sent |-> FALSE, raised |-> FALSE, posted |-> FALSE]
    ELSE [sent |-> outcome = "success", raised |-> outcome # "success", posted |-> TRUE]

\* _send_webhook_notification: [sent, raised, posted].  url: NOTIFY_WEBHOOK_URL is set
send_webhook_notification(url, outcome) ==
    IF ~url THEN [sent |-> FALSE, raised |-> FALSE, posted |-> FALSE]
    ELSE [sent |-> outcome = "success", raised |-> outcome # "success", posted |-> TRUE]

\* what send_outbound_notifications reports when it sends nothing
NothingDelivered ==
    [telegram_sent |-> FALSE, webhook_sent |-> FALSE, raised |-> FALSE,
     telegram_called |-> FALSE, webhook_called |-> FALSE, webhook_posted |-> FALSE,
     failed |-> {}]

\* variant: an exception of the Telegram channel leaves send_outbound_notifications
send_outbound_notifications_uncaught(should_notify, token, url, chat, tg_outcome, wh_outcome) ==
    IF ~should_notify THEN NothingDelivered
    ELSE IF ~token /\ ~url THEN NothingDelivered
    ELSE LET t == send_telegram_notification(token, chat, tg_outcome)
             w == send_webhook_notification(url, wh_outcome)
         IN IF t.raised
            THEN [NothingDelivered EXCEPT !.raised = TRUE, !.telegram_called = TRUE]
            ELSE [telegram_sent |-> t.sent, webhook_sent |-> ~w.raised /\ w.sent,
                  raised |-> FALSE, telegram_called |-> TRUE, webhook_called |-> TRUE,
                  webhook_posted |-> w.posted,
                  failed |-> IF w.raised THEN {"webhook"} ELSE {}]

\* send_outbound_notifications: each channel runs in its own try; an exception
\* leaves that channel's flag FALSE and the next channel is still called.
\* failed: the channels whose exception is logged
send_outbound_notifications(should_notify, token, url, chat, tg_outcome, wh_outcome) ==
    IF ~should_notify THEN NothingDelivered
    ELSE IF ~token /\ ~url THEN NothingDelivered
    ELSE LET t == send_telegram_notification(token, chat, tg_outcome)
             w == send_webhook_notification(url, wh_outcome)
         IN [telegram_sent |-> ~t.raised /\ t.sent, webhook_sent |-> ~w.raised /\ w.sent,
             raised |-> FALSE, telegram_called |-> TRUE, webhook_called |-> TRUE,
             webhook_posted |-> w.posted,
             failed |-> (IF t.raised THEN {"telegram"} ELSE {})
                        \cup (IF w.raised THEN {"webhook"} ELSE {})]

\* what GET /notifications/telegram/target can answer the worker
TargetLookups == {"chat", "empty_chat", "not_found", "request_error"}

\* the response of the target lookup: [raised, status_code, chat_id]
TargetResponse(lookup) ==
    [raised |-> lookup = "request_error",
     status_code |-> IF lookup \in {"chat", "empty_chat"} THEN 200 ELSE 404,
     chat_id |-> IF lookup = "chat" THEN "chat1" ELSE ""]

\* _resolve_chat_id_for_payload: the chat id of the payload's device, or None
resolve_chat_id_for_payload(device_id, lookup) ==
    IF device_id = NULL THEN NULL
    ELSE LET response == TargetResponse(lookup) IN
         IF response.raised THEN NULL
         ELSE IF response.status_code = 200 /\ response.chat_id # ""
              THEN response.chat_id
              ELSE NULL

\* variant: a failed sendVideo is followed by a sendMessage
telegram_api_calls_fallback(token, chat_id, send_video, clip_data, outcome) ==
    IF ~token \/ chat_id = NULL THEN <<>>
    ELSE IF send_video /\ clip_data
         THEN IF outcome = "success" THEN <<"sendVideo">> ELSE <<"sendVideo", "sendMessage">>
         ELSE <<"sendMessage">>

\* _send_telegram_notification: the Telegram API methods it posts to, in order.
\* send_video: TELEGRAM_SEND_VIDEO; clip_data: the payload has clip bytes; a failed
\* sendVideo re-raises, it does not fall through to sendMessage
telegram_api_calls(token, chat_id, send_video, clip_data, outcome) ==
    IF ~token \/ chat_id = NULL THEN <<>>
    ELSE IF send_video /\ clip_data THEN <<"sendVideo">>
         ELSE <<"sendMessage">>

\* one dispatch for a payload: [chat_id, calls, telegram_sent]
send_outbound_notifications_for(should_notify, token, url, device_id, lookup, send_video, clip_data, tg_outcome, wh_outcome) ==
    LET chat_id == resolve_chat_id_for_payload(device_id, lookup)
        d == send_outbound_notifications(should_notify, token, url, chat_id # NULL,
                                         tg_outcome, wh_outcome)
    IN [chat_id |-> chat_id,
        calls |-> IF d.telegram_called
                  THEN telegram_api_calls(token, chat_id, send_video, clip_data, tg_outcome)
                  ELSE <<>>,
        telegram_sent |-> d.telegram_sent]

\* the environment of one dispatch: the configured channels, whether a chat is
\* resolved for the device, the outcome of each send
NotifyInput(token, url, chat, tg_outcome, wh_outcome) ==
    [token |-> token, url |-> url, chat |-> chat, tg |-> tg_outcome, wh |-> wh_outcome]

\* process_clip lines 234-269: the dispatch inside its try; a raised exception is
\* caught and the default notification_delivery is kept
process_clip_dispatch(w, crash, n) ==
    LET d == send_outbound_notifications(w.notify, n.token, n.url, n.chat, n.tg, n.wh)
    IN IF crash \/ d.raised
       THEN [w EXCEPT !.dispatched = TRUE]
       ELSE [w EXCEPT !.dispatched = TRUE,
                      !.notification_delivery = [telegram_sent |-> d.telegram_sent,
                                                 webhook_sent |-> d.webhook_sent],
                      !.failed_channels = d.failed]

\* process_clip lines 234-291: send_outbound_notifications (a crash is caught), return
WorkerNotify(crash, n) ==
    /\ worker.pc = "notify"
    /\ worker' = process_clip_return(process_clip_dispatch(worker, crash, n), "done")
    /\ queue' = FinishJob(queue, worker.job)
    /\ resp' = NoResp("worker_notify")
    /\ UNCHANGED <<now, authRequired, users, authSessions, devices, sessions, events,
                   attempts, tg, uploads, inflight>>

\* process_clip lines 293-324: the fallback summary, then return
WorkerErrorPost(api_up) ==
    /\ worker.pc = "errorpost"
    /\ LET r == process_clip_except(worker, events, api_up) IN
       /\ events' = r.db
       /\ worker' = r.w
    /\ queue' = FinishJob(queue, worker.job)
    /\ resp' = NoResp("worker_error_post")
    /\ UNCHANGED <<now, authRequired, users, authSessions, devices, sessions,
                   attempts, tg, uploads, inflight>>

\* ---------------------------------------------------------------- specification

EmptyTable == [i \in {} |-> NULL]

Init ==
    /\ now = 0
    /\ authRequired \in BOOLEAN
    /\ users = {}
    /\ authSessions = EmptyTable
    /\ devices = EmptyTable
    /\ sessions = EmptyTable
    /\ events = EmptyTable
    /\ queue = <<>>
    /\ worker = IdleWorker
    /\ attempts = EmptyTable
    /\ tg = [sent |-> <<>>, offset |-> NOTIME, polls |-> 0]
    /\ uploads = NoUploads
    /\ inflight = EmptyTable
    /\ resp = NoResp("init")

\* an id uuid4() may return: any id of the pool that has no row
Fresh(table, pool) == pool \ DOMAIN table

\* ---- Spec: the lifecycle of one Event; requests carry no Authorization header
EvStartSession ==
    \E f \in Fresh(sessions, SessionIds) : start_session(NoToken, "d1", f)
EvForceStop == \E s \in SessionIds : force_stop_session_endpoint(NoToken, s, NOTIME)
EvCreateEvent ==
    \E s \in SessionIds, d \in DeviceIds, f \in Fresh(events, {"e1"}) :
        create_event_endpoint(NoToken, s, d, f)
EvInitiateUpload ==
    \E e \in {"e1", NULL}, s \in SessionIds, d \in DeviceIds, c \in BOOLEAN,
       f \in Fresh(events, {"e1", "e2"}) :
        /\ e = NULL => f = "e1"
        /\ initiate_upload_endpoint(NoToken, e, s, d, c, f)
EvUploadClip == upload_clip_endpoint(NoToken, "e1")
EvFinalizeUpload ==
    \E t \in Etags \cup {NULL}, up \in BOOLEAN :
        finalize_upload_endpoint(NoToken, "e1", t, up)
EvUpdateEventSummary ==
    \E p \in {ErrorSummary, VerdictSummary(TRUE)} :
        update_event_summary_endpoint(NoToken, "e1", p)

Next ==
    \/ Tick
    \/ EvStartSession
    \/ EvForceStop
    \/ EvCreateEvent
    \/ EvInitiateUpload
    \/ EvUploadClip
    \/ EvFinalizeUpload
    \/ EvUpdateEventSummary

Spec == Init /\ [][Next]_vars

\* ---- SpecForceStop: sessions with events and queued jobs, force-stopped
FsCreateUser == create_user_call("u1")
FsLogin == create_auth_session_call("t1", "u1", NOTIME)
FsRegisterDevice ==
    \E f \in Fresh(devices, DeviceIds) : register_device_endpoint("t1", "d1", f)
\* the ids are interchangeable: the first session started is s1, the second s2
FsStartSession ==
    \E b \in {NoToken, "t1"},
       f \in Fresh(sessions, IF Has(sessions, "s1") THEN {"s2"} ELSE {"s1"}) :
        start_session(b, "d1", f)
FsCreateEvent ==
    \E s \in SessionIds, f \in Fresh(events, EventIds) :
        create_event_endpoint(NoToken, s, "d1", f)
FsUpdateEventSummary == update_event_summary_endpoint(NoToken, "e1", ErrorSummary)
FsEnqueue == \E s \in SessionIds : enqueue_inference_job_call("e1", s, TRUE)
FsForceStop ==
    \E b \in {NoToken, "t1"}, s \in SessionIds, fail \in {NOTIME} \cup 0..MaxJobs :
        force_stop_session_endpoint(b, s, fail)

NextForceStop ==
    \/ FsCreateUser
    \/ FsLogin
    \/ FsRegisterDevice
    \/ FsStartSession
    \/ FsCreateEvent
    \/ FsUpdateEventSummary
    \/ FsEnqueue
    \/ FsForceStop

SpecForceStop == Init /\ [][NextForceStop]_vars

\* ---- SpecWorker: the rq worker runs process_clip on the queued jobs
WkStartSession == \E f \in Fresh(sessions, {"s1"}) : start_session(NoToken, "d1", f)
WkCreateEvent == \E f \in Fresh(events, {"e1"}) : create_event_endpoint(NoToken, "s1", "d1", f)
WkEnqueue == \E e \in {"e1", ""} : enqueue_inference_job_call(e, "s1", TRUE)
WkDequeue == \E test_mode \in BOOLEAN : WorkerDequeue(test_mode)
WkDownload == \E ok \in BOOLEAN : WorkerDownload(ok)
WkInference == \E outcome \in {"fail", "notify", "quiet"} : WorkerInference(outcome)
WkWriteback == \E api_up \in BOOLEAN : WorkerWriteback(api_up)
\* a send that is not made has no outcome: it is drawn as "success"
NotifyInputs ==
    {NotifyInput(tok, url, chat, t, w) :
        tok \in BOOLEAN, url \in BOOLEAN, chat \in BOOLEAN,
        t \in ChannelOutcomes, w \in ChannelOutcomes}
WkNotify ==
    \E crash \in BOOLEAN, n \in NotifyInputs :
        (crash => n = NotifyInput(TRUE, TRUE, TRUE, "success", "success"))
        /\ WorkerNotify(crash, n)
WkErrorPost == \E api_up \in BOOLEAN : WorkerErrorPost(api_up)

NextWorker ==
    \/ WkStartSession
    \/ WkCreateEvent
    \/ WkEnqueue
    \/ WkDequeue
    \/ WkDownload
    \/ WkInference
    \/ WkWriteback
    \/ WkNotify
    \/ WkErrorPost

SpecWorker == Init /\ [][NextWorker]_vars

\* ---- SpecInference: the inference router and its prompt cache
CallOutcomes == {"ok", "error"}
\* a provider without a token is never called: its outcomes are drawn as "error"
TextOutcomesOf(token) == IF token THEN TextOutcomes ELSE {"error"}
CallOutcomesOf(token) == IF token THEN CallOutcomes ELSE {"error"}
InRunInference ==
    \E clip_data \in BOOLEAN, p \in Prompts, frames \in BOOLEAN,
       nvidia_token \in BOOLEAN, hf_token \in BOOLEAN :
      \E nv_text \in TextOutcomesOf(nvidia_token), hf_text \in TextOutcomesOf(hf_token),
         nv_video \in CallOutcomesOf(nvidia_token), hf_image \in CallOutcomesOf(hf_token) :
        run_inference_call(clip_data, p, frames, nvidia_token, hf_token,
                           ProviderOutcomes(nv_text, hf_text, nv_video, hf_image))
InNormalize ==
    \E p \in Prompts, nvidia_token \in BOOLEAN, hf_token \in BOOLEAN :
      \E nv_text \in TextOutcomesOf(nvidia_token), hf_text \in TextOutcomesOf(hf_token) :
        normalize_alert_instructions_call(p, nvidia_token, hf_token, nv_text, hf_text)

NextInference ==
    \/ InRunInference
    \/ InNormalize

SpecInference == Init /\ [][NextInference]_vars

\* ---- SpecUpload: relay uploads into the local upload directory
UpStartSession == \E f \in Fresh(sessions, {"s1"}) : start_session(NoToken, "d1", f)
UpCreateEvent ==
    \E f \in Fresh(events, {"e2"}) : create_event_endpoint(NoToken, "s1", "d1", f)
UpInitiateUpload ==
    \E cloud \in BOOLEAN, f \in Fresh(events, {"e1"}) :
        initiate_upload_endpoint(NoToken, "e1", "s1", "d1", cloud, f)
UpSetBlobName ==
    \E e \in EventIds, blob_name \in BlobNames : set_clip_blob_name_call(e, blob_name)
UpUploadClip == \E e \in EventIds : upload_clip_endpoint(NoToken, e)
UpUpdateEventSummary ==
    \E e \in EventIds, p \in {VerdictSummary(TRUE), EmptySummary, NullSummary} :
        update_event_summary_endpoint(NoToken, e, p)
UpFinalizeUpload ==
    \E e \in EventIds : finalize_upload_endpoint(NoToken, e, "etag-1", TRUE)

NextUpload ==
    \/ UpStartSession
    \/ UpCreateEvent
    \/ UpInitiateUpload
    \/ UpSetBlobName
    \/ UpUploadClip
    \/ UpFinalizeUpload
    \/ UpUpdateEventSummary

SpecUpload == Init /\ [][NextUpload]_vars

\* ---- SpecExpiry: bearer tokens that expire while the clock runs
\* token_ttl_seconds(), in clock ticks
TokenTtl == 1
XpCreateUser == create_user_call("u1")
XpLogin ==
    \E t \in Tokens, expires_at \in {NOTIME, now + TokenTtl} :
        create_auth_session_call(t, "u1", expires_at)
XpRegisterDevice ==
    \E b \in Bearers, f \in Fresh(devices, {"d2"}) : register_device_endpoint(b, "d1", f)
XpStartSession ==
    \E b \in Bearers, f \in Fresh(sessions, {"s1"}) : start_session(b, "d1", f)

NextExpiry ==
    \/ Tick
    \/ XpCreateUser
    \/ XpLogin
    \/ XpRegisterDevice
    \/ XpStartSession

SpecExpiry == Init /\ [][NextExpiry]_vars

\* ---- SpecLink: Telegram link attempts, confirmed by webhook or by status poll
AttemptIds == {"a1", "a2"}
LinkTokenOf == [a \in AttemptIds |-> IF a = "a1" THEN "k1" ELSE "k2"]
Chats == {"c1", "c2"}
StartMessages == {Message(c, "/start", LinkTokenOf[a]) : c \in Chats, a \in AttemptIds}
Messages ==
    StartMessages \cup {Message("c1", "/start", NULL), Message("c1", "/help", NULL),
                        Message(NULL, "/start", "k1"), Message("c1", "/start", "k-unknown")}
UpdateBatches ==
    {<<>>} \cup {<<Update(1, TRUE, m)>> : m \in StartMessages}
           \cup {<<Update(1, FALSE, Message(NULL, NULL, NULL)),
                   Update(2, TRUE, Message("c2", "/start", "k1"))>>}

LkRegisterDevice ==
    \E f \in Fresh(devices, DeviceIds) : register_device_endpoint(NoToken, "d1", f)
LkCreateAttempt ==
    \E a \in Fresh(attempts, AttemptIds) :
        create_telegram_link_attempt_call("d1", NULL, LinkTokenOf[a], a)
LkLinkStart ==
    \E bot \in BOOLEAN, onboarding \in BOOLEAN :
        telegram_link_start(NoToken, bot, onboarding, "d1", "k1")
\* a failed exchange delivers no updates; without a bot token nothing is polled
PollInputs ==
    {[bot |-> FALSE, outcome |-> "ok", updates |-> <<>>]}
        \cup {[bot |-> TRUE, outcome |-> o, updates |-> <<>>] :
                 o \in PollOutcomes \ {"ok", "conflict_then_ok"}}
        \cup {[bot |-> TRUE, outcome |-> o, updates |-> us] :
                 o \in {"ok", "conflict_then_ok"}, us \in UpdateBatches}
WebhookInputs ==
    {[bot |-> FALSE, secret_ok |-> TRUE, has_message |-> TRUE,
      message |-> Message("c1", "/start", "k1")],
     [bot |-> TRUE, secret_ok |-> FALSE, has_message |-> TRUE,
      message |-> Message("c1", "/start", "k1")],
     [bot |-> TRUE, secret_ok |-> TRUE, has_message |-> FALSE,
      message |-> Message(NULL, NULL, NULL)]}
        \cup {[bot |-> TRUE, secret_ok |-> TRUE, has_message |-> TRUE, message |-> m] :
                 m \in Messages}

LkWebhook ==
    \E i \in WebhookInputs : telegram_webhook(i.bot, i.secret_ok, i.has_message, i.message)
LkLinkStatus ==
    \E a \in AttemptIds, i \in PollInputs :
        telegram_link_status(i.bot, "d1", a, i.outcome, i.updates)

NextLink ==
    \/ Tick
    \/ LkRegisterDevice
    \/ LkCreateAttempt
    \/ LkLinkStart
    \/ LkWebhook
    \/ LkLinkStatus

SpecLink == Init /\ [][NextLink]_vars

\* ---- SpecDevice: devices claimed by users and linked to Telegram chats
TokenOf == [u \in Users |-> IF u = "u1" THEN "t1" ELSE "t2"]

DvCreateUser == \E u \in Users : create_user_call(u)
DvLogin == \E u \in Users : create_auth_session_call(TokenOf[u], u, NOTIME)
DvRegisterDevice ==
    \E b \in Tokens \cup {NoToken}, d \in {"d1", NULL}, f \in Fresh(devices, DeviceIds) :
        register_device_endpoint(b, d, f)
DvCreateAttempt ==
    \E d \in DeviceIds, a \in Fresh(attempts, {"a1"}) :
        create_telegram_link_attempt_call(d, NULL, LinkTokenOf[a], a)
DvWebhook == \E c \in Chats : telegram_webhook(TRUE, TRUE, TRUE, Message(c, "/start", "k1"))
DvLinkStatus ==
    \E d \in DeviceIds :
        telegram_link_status(TRUE, d, "a1", "ok",
                             <<Update(1, TRUE, Message("c2", "/start", "k1"))>>)

NextDevice ==
    \/ DvCreateUser
    \/ DvLogin
    \/ DvRegisterDevice
    \/ DvCreateAttempt
    \/ DvWebhook
    \/ DvLinkStatus

SpecDevice == Init /\ [][NextDevice]_vars

\* ---- SpecAuth: two users, their bearer tokens, and requests with and without them
AuCreateUser == \E u \in Users : create_user_call(u)
AuLogin == \E u \in Users : create_auth_session_call(TokenOf[u], u, NOTIME)
AuRegisterDevice ==
    \E b \in Tokens, f \in Fresh(devices, DeviceIds) : register_device_endpoint(b, "d1", f)
AuStartSession ==
    \E b \in Tokens \cup {NoToken}, f \in Fresh(sessions, {"s1"}) : start_session(b, "d1", f)
AuStopSession == \E b \in Bearers : stop_session_endpoint(b, "s1")
AuForceStop == \E b \in Bearers : force_stop_session_endpoint(b, "s1", NOTIME)
AuCreateEvent ==
    \E b \in Bearers, f \in Fresh(events, {"e1"}) : create_event_endpoint(b, "s1", "d1", f)
AuListEvents == \E b \in Bearers : list_events_endpoint(b, "s1")
AuListSessions == \E b \in Bearers, d \in {"d1", NULL} : list_sessions_endpoint(b, d)
AuReadiness ==
    \E b \in {NoToken, BadToken}, bot_token \in BOOLEAN, get_chat \in GetChatOutcomes :
        telegram_readiness(b, bot_token, "d1", get_chat)
AuInitiateUpload ==
    \E b \in {NoToken, BadToken}, f \in Fresh(events, EventIds) :
        initiate_upload_endpoint(b, "e1", "s1", "d1", TRUE, f)
AuUploadClip == \E b \in {NoToken, BadToken} : upload_clip_endpoint(b, "e1")
AuFinalizeUpload ==
    \E b \in {NoToken, BadToken} : finalize_upload_endpoint(b, "e1", NULL, TRUE)
AuUpdateEventSummary ==
    \E b \in {NoToken, BadToken} : update_event_summary_endpoint(b, "e1", ErrorSummary)
AuLinkStart ==
    \E b \in {NoToken, BadToken} : telegram_link_start(b, TRUE, TRUE, "d1", "k1")

NextAuth ==
    \/ AuCreateUser
    \/ AuLogin
    \/ AuRegisterDevice
    \/ AuStartSession
    \/ AuStopSession
    \/ AuForceStop
    \/ AuCreateEvent
    \/ AuListEvents
    \/ AuListSessions
    \/ AuReadiness
    \/ AuInitiateUpload
    \/ AuUploadClip
    \/ AuFinalizeUpload
    \/ AuUpdateEventSummary
    \/ AuLinkStart

SpecAuth == Init /\ [][NextAuth]_vars

\* ---------------------------------------------------------------- properties of Spec

\* a step that leaves every table, the queue and the clock as they are
StateUnchanged == UNCHANGED <<now, authRequired, users, authSessions, devices, sessions,
                              events, queue, worker, attempts, tg, uploads, inflight>>

\* C1: an Event's status changes only from processing to done; an Event that is
\* done stays a row of the store and stays done through every operation.
C1_StatusMonotone ==
    [][\A e \in DOMAIN events :
          /\ events[e].status = "done" => (e \in DOMAIN events' /\ events'[e].status = "done")
          /\ (e \in DOMAIN events' /\ events'[e].status # events[e].status)
                => (events[e].status = "processing" /\ events'[e].status = "done")]_vars

\* C1 witness: a re-initiate with the event_id of a done Event was served
C1_Witness ==
    /\ resp.op = "initiate_upload" /\ resp.code = 200
    /\ Has(events, resp.id) /\ events[resp.id].status = "done"

\* C7 (amended): when the request passes the session validation (the session exists
\* and device_id is the session's device), initiate with an event_id that has a row
\* changes nothing; for the row's session it answers 200 with the existing row, for
\* another session it answers 409.  Without that validation it answers 404, and
\* changes nothing either.
C7_InitiateIdempotent ==
    [][resp'.op = "initiate_upload" =>
       \A e \in {resp'.id} \cap DOMAIN events, s \in {resp'.session_id}, d \in DeviceIds,
          c \in BOOLEAN, f \in EventIds :
          initiate_upload_endpoint(NoToken, e, s, d, c, f) =>
            /\ StateUnchanged
            /\ resp'.id = e
            /\ IF Has(sessions, s) /\ sessions[s].device_id = d
               THEN IF events[e].session_id = s
                    THEN resp'.code = 200 /\ resp'.body = {events[e]}
                    ELSE resp'.code = 409 /\ resp'.body = {}
               ELSE resp'.code = 404 /\ resp'.body = {}]_vars

\* C7, the conflict case reached: the row is done and stamped, and stays so
C7_WitnessConflict ==
    /\ resp.op = "initiate_upload" /\ resp.code = 409
    /\ Has(events, resp.id) /\ events[resp.id].session_id # resp.session_id
    /\ events[resp.id].status = "done" /\ events[resp.id].clip_uploaded_at # NOTIME

\* C7 witness: a repeat in the row's session returned the row, already stamped
C7_Witness ==
    /\ resp.op = "initiate_upload" /\ resp.code = 200
    /\ Has(events, resp.id) /\ resp.body = {events[resp.id]}
    /\ events[resp.id].clip_uploaded_at # NOTIME

\* C7 as stated: every initiate whose event_id has a row answers 200 with that row
\* when the request names the row's session, and 409 when it names another session
C7_AsStated ==
    (resp.op = "initiate_upload" /\ Has(events, resp.id) /\ resp.code # 200)
        => (resp.code = 409 /\ events[resp.id].session_id # resp.session_id)

\* C8: clip_uploaded_at, once stamped, keeps its value through every operation; a
\* finalize stamps it with the clock only when it is unset, writes clip_etag when
\* the call supplies an etag and leaves it otherwise, and changes no other field.
C8_FirstStampKept ==
    [][/\ \A e \in DOMAIN events \cap DOMAIN events' :
             events[e].clip_uploaded_at # NOTIME
                => events'[e].clip_uploaded_at = events[e].clip_uploaded_at
       /\ resp'.op = "finalize_upload" =>
          \A e \in {resp'.id} \cap DOMAIN events, t \in Etags \cup {NULL}, up \in BOOLEAN :
             finalize_upload_endpoint(NoToken, e, t, up) =>
                events' = [events EXCEPT
                    ![e].clip_uploaded_at =
                        IF events[e].clip_uploaded_at = NOTIME THEN now
                        ELSE events[e].clip_uploaded_at,
                    ![e].clip_etag = IF t # NULL THEN t ELSE events[e].clip_etag]]_vars

\* C8 witness: a later finalize, at a later time, with another etag
C8_Witness ==
    /\ resp.op = "finalize_upload" /\ Has(events, resp.id)
    /\ events[resp.id].clip_uploaded_at # NOTIME
    /\ events[resp.id].clip_uploaded_at < now
    /\ events[resp.id].clip_etag = "etag-b"

\* C9 as stated: a finalize of an Event that exists answers success with the Event,
\* which has clip_uploaded_at set, whatever happens to the enqueue
C9_FinalizeSucceeds ==
    (resp.op = "finalize_upload" /\ Has(events, resp.id))
        => /\ resp.code = 200
           /\ resp.body = {events[resp.id]}
           /\ events[resp.id].clip_uploaded_at # NOTIME

\* ---------------------------------------------------------------- properties of SpecForceStop

\* the jobs of session s that wait in the queue
PendingJobsOf(q, s) ==
    {i \in 1..Len(q) : q[i].status = "queued" /\ q[i].payload.session_id = s}

\* the jobs a step canceled
CanceledBy(q, q2) == {i \in 1..Len(q) : q[i].status # "canceled" /\ q2[i].status = "canceled"}

\* what every successful force-stop of s establishes for the session and its events
ForceStopDropsEvents(s) ==
    /\ sessions'[s].status = "stopped"
    /\ \A e \in DOMAIN events' :
          ~(events'[e].session_id = s /\ events'[e].status = "processing")
    /\ resp'.dropped_processing_events = Cardinality(DOMAIN events \ DOMAIN events')

\* C2 (amended): a successful force-stop of S leaves S stopped and no processing Event
\* of S, and reports the number of events deleted; when the queue raises no error
\* during the request, every job of S that was pending is canceled and
\* dropped_queued_jobs is their number; when the queue raises, dropped_queued_jobs
\* is 0 and only the jobs before the error are canceled.
C2_ForceStop ==
    [][(resp'.op = "force_stop" /\ resp'.code = 200) =>
       \A b \in {resp'.bearer}, s \in {resp'.session_id}, fail \in {NOTIME} \cup 0..MaxJobs :
          force_stop_session_endpoint(b, s, fail) =>
            /\ ForceStopDropsEvents(s)
            /\ IF fail = NOTIME \/ fail > Cardinality(PendingJobsOf(queue, s))
               THEN /\ \A i \in PendingJobsOf(queue, s) : queue'[i].status = "canceled"
                    /\ resp'.dropped_queued_jobs = Cardinality(CanceledBy(queue, queue'))
                    /\ CanceledBy(queue, queue') = PendingJobsOf(queue, s)
               ELSE /\ resp'.dropped_queued_jobs = 0
                    /\ Cardinality(CanceledBy(queue, queue')) = IF fail = 0 THEN 0 ELSE fail - 1
                    /\ Cardinality(PendingJobsOf(queue', s)) =
                          Cardinality(PendingJobsOf(queue, s))
                            - Cardinality(CanceledBy(queue, queue'))]_vars

\* C2 witness: a force-stop deleted an event and canceled two jobs
C2_Witness ==
    /\ resp.op = "force_stop" /\ resp.code = 200
    /\ resp.dropped_processing_events >= 1 /\ resp.dropped_queued_jobs = 2

\* C2 as stated: a successful force-stop cancels every pending job of S and reports
\* the numbers of events deleted and of jobs canceled
C2_AsStated ==
    [][(resp'.op = "force_stop" /\ resp'.code = 200) =>
       \A b \in {resp'.bearer}, s \in {resp'.session_id}, fail \in {NOTIME} \cup 0..MaxJobs :
          force_stop_session_endpoint(b, s, fail) =>
            /\ ForceStopDropsEvents(s)
            /\ \A i \in PendingJobsOf(queue, s) : queue'[i].status = "canceled"
            /\ resp'.dropped_queued_jobs = Cardinality(CanceledBy(queue, queue'))]_vars

\* ---------------------------------------------------------------- properties of SpecWorker

FailureCauses == {"download", "inference", "writeback"}

\* C10: when process_clip returns after a failed download, inference or writeback
\* of a job with an event_id, it has posted the error summary (label "error",
\* confidence 0, should_notify false) for that event, its result is status error,
\* the job is finished and no job was added; a delivered post leaves the Event done
\* with label "error"; a job that is finished is never queued again.
C10_ErrorPath ==
    [][/\ (worker.pc # "idle" /\ worker'.pc = "idle" /\ worker'.cause \in FailureCauses) =>
            /\ worker'.event_id # ""
            /\ worker'.result = "error"
            /\ worker'.error_post.attempted
            /\ \A p \in worker'.error_post.body :
                  p.label = "error" /\ p.confidence = 0 /\ p.should_notify = "false"
            /\ worker'.error_post.body # {}
            /\ worker'.error_post.delivered =>
                  /\ Has(events', worker'.event_id)
                  /\ events'[worker'.event_id].status = "done"
                  /\ events'[worker'.event_id].label = "error"
            /\ queue'[worker'.job].status = "finished"
            /\ Len(queue') = Len(queue)
       /\ (worker.pc \in {"download", "inference", "writeback"} /\ worker'.cause # NULL
           /\ worker.cause = NULL) => worker'.pc = "errorpost"
       /\ \A i \in 1..Len(queue) :
             queue[i].status = "finished" => queue'[i].status = "finished"]_vars

\* C10 witness: a writeback failed, the fallback post was delivered, the job is finished
C10_Witness ==
    /\ worker.pc = "idle" /\ worker.cause = "writeback" /\ worker.result = "error"
    /\ worker.error_post.delivered
    /\ queue[worker.job].status = "finished"

\* ---------------------------------------------------------------- properties of SpecLink

\* C3: an attempt's status changes only from pending to linked or from pending to
\* expired, and never afterwards; a linked attempt has a chat_id and linked_at; an
\* attempt becomes expired only in a step taken at a time now > expires_at.
C3_AttemptStatus ==
    [][/\ \A a \in DOMAIN attempts :
             /\ a \in DOMAIN attempts'
             /\ attempts'[a].status # attempts[a].status =>
                   /\ attempts[a].status = "pending"
                   /\ attempts'[a].status \in {"linked", "expired"}
                   /\ attempts'[a].status = "expired" => now > attempts[a].expires_at
       /\ \A a \in DOMAIN attempts' :
             /\ attempts'[a].status \in {"pending", "linked", "expired"}
             /\ a \notin DOMAIN attempts => attempts'[a].status = "pending"
             /\ attempts'[a].status = "linked" =>
                   (attempts'[a].chat_id # NULL /\ attempts'[a].linked_at # NOTIME)]_vars

\* C3 witness: one attempt is linked, the other expired, and a webhook delivery
\* that replays the linked token was just served
C3_Witness ==
    /\ resp.op = "telegram_webhook"
    /\ Len(tg.sent) = 1 /\ tg.sent[1].text = "already linked"
    /\ \E a, b \in DOMAIN attempts :
          attempts[a].status = "linked" /\ attempts[b].status = "expired"

\* ---------------------------------------------------------------- properties of SpecDevice

\* C4: a Device whose user_id is set keeps its row and that user_id in every step.
C4_OwnerKept ==
    [][\A d \in DOMAIN devices :
          devices[d].user_id # NULL =>
             (d \in DOMAIN devices' /\ devices'[d].user_id = devices[d].user_id)]_vars

\* C4 witness: the device of one user, linked to a chat, refused to the other user
C4_Witness ==
    /\ resp.op = "register_device" /\ resp.code = 404
    /\ Has(devices, resp.id) /\ devices[resp.id].user_id # NULL
    /\ devices[resp.id].telegram_chat_id # NULL

\* what register_device does to an existing device row for a caller
RegisterExisting(d, u) ==
    \A t \in Times, f \in DeviceIds :
       LET r == register_device(devices, d, u, t, f) IN
       /\ devices[d].user_id \notin {NULL, u} => (r.ret = "ValueError" /\ r.db = devices)
       /\ devices[d].user_id = NULL =>
             (r.ret = d /\ r.db = [devices EXCEPT ![d].user_id = u])
       /\ devices[d].user_id = u => (r.ret = d /\ r.db = devices)

\* the user a register request is made for
Caller(bearer) == get_request_user_id(bearer, TRUE)

\* C17: in every reachable state, register_device with the id of an existing
\* device raises "device not found" and leaves the rows alone when another user
\* owns it, sets the caller as owner (and nothing else) when it is unclaimed,
\* and returns the row unchanged, adding none, when the caller owns it; the
\* endpoint answers the refusal with 404 and the other two cases with 200 and
\* the row's unchanged created_at.
C17_RegisterExisting ==
    /\ [](\A d \in DOMAIN devices, u \in Users : RegisterExisting(d, u))
    /\ [][\A d \in {resp'.id}, b \in {resp'.bearer} :
             (/\ resp'.op = "register_device" /\ Has(devices, d)
              /\ Caller(b).code = 200 /\ Caller(b).user # NULL) =>
                /\ DOMAIN devices' = DOMAIN devices
                /\ devices'[d].created_at = devices[d].created_at
                /\ IF devices[d].user_id \in {NULL, Caller(b).user}
                   THEN resp'.code = 200 /\ devices'[d].user_id = Caller(b).user
                   ELSE resp'.code = 404 /\ devices' = devices]_vars

\* a user registered a device id whose row, linked to a chat, was already there
C17_Witness ==
    /\ resp.op = "register_device" /\ resp.code = 200
    /\ Has(devices, resp.id)
    /\ devices[resp.id].user_id = Caller(resp.bearer).user
    /\ devices[resp.id].user_id # NULL
    /\ devices[resp.id].telegram_chat_id # NULL
    /\ Cardinality(DOMAIN devices) = 1

\* ---------------------------------------------------------------- properties of SpecAuth

\* the handlers of the POST and PUT routes outside the public allowlist
ProtectedWrites ==
    {"register_device", "start_session", "stop_session", "force_stop", "create_event",
     "initiate_upload", "upload_clip", "finalize_upload", "update_event_summary",
     "telegram_link_start"}

\* C5 as stated: under AUTH_REQUIRED a protected write whose bearer does not
\* authenticate is answered 401 and changes no state
C5_WritesNeedBearer ==
    [][(/\ authRequired
        /\ resp'.op \in ProtectedWrites
        /\ authenticate_request(resp'.bearer).code # 200)
          => (resp'.code = 401 /\ StateUnchanged)]_vars

\* C6 as stated: under AUTH_REQUIRED a stop, an event creation or an event listing
\* for a session of user A, authenticated as another user B, is answered 404 and
\* changes no state
C6_CrossUserBlocked ==
    [][\A s \in DOMAIN sessions :
          (/\ authRequired
           /\ resp'.op \in {"stop_session", "create_event", "list_events"}
           /\ resp'.session_id = s
           /\ sessions[s].user_id # NULL
           /\ authenticate_request(resp'.bearer).code = 200
           /\ authenticate_request(resp'.bearer).user # sessions[s].user_id)
             => (resp'.code = 404 /\ StateUnchanged)]_vars

\* the attempt a link token belongs to is linked
TokenLinked(link_token) ==
    LET a == get_telegram_link_attempt_by_token_hash(attempts, hash_token(link_token)) IN
    a # NULL /\ attempts[a].status = "linked"

\* what delivering a /start message with link_token from chat c does to the rows
StartDelivery(c, link_token, send_user_feedback) ==
    process_telegram_message(LinkState(devices, attempts, <<>>),
                             Message(c, "/start", link_token), send_user_feedback, now)

\* C11: in every reachable state, processing a /start message that carries the
\* token of a linked attempt, with user feedback (webhook) or without (status
\* poll), from the linking chat or from another chat, leaves every attempt row and
\* every device row as they are, adds no row, and reports the token as linked.
C11_LinkedReplay ==
    \A a \in AttemptIds, c \in Chats, fb \in BOOLEAN :
       TokenLinked(LinkTokenOf[a]) =>
          /\ StartDelivery(c, LinkTokenOf[a], fb).ls.attempts = attempts
          /\ StartDelivery(c, LinkTokenOf[a], fb).ls.devices = devices
          /\ StartDelivery(c, LinkTokenOf[a], fb).ret

\* C11 witness: the webhook served a /start with a linked token from a chat other
\* than the one the attempt is linked to
C11_Witness ==
    /\ resp.op = "telegram_webhook"
    /\ Len(tg.sent) = 1 /\ tg.sent[1].text = "already linked"
    /\ \E a \in DOMAIN attempts :
          /\ attempts[a].status = "linked"
          /\ attempts[a].chat_id # tg.sent[1].chat_id
          /\ Has(devices, attempts[a].device_id)
          /\ devices[attempts[a].device_id].telegram_chat_id = attempts[a].chat_id

\* what the two channels of one dispatch are expected to report
Dispatch(n) == send_outbound_notifications(TRUE, n.token, n.url, n.chat, n.tg, n.wh)

\* C12: whenever the worker leaves the notification step of a job, then for every
\* combination of channel outcomes send_outbound_notifications returns without
\* raising, calls the webhook channel (and posts when a URL is configured) also
\* when the Telegram send failed, and reports telegram_sent / webhook_sent true
\* exactly for the channels whose send succeeded; the job itself returns "done",
\* is finished, posts no error summary, and a channel it reports as sent is not
\* one whose failure was logged.
C12_NotifyNeverFails ==
    [][(worker.pc = "notify" /\ worker' # worker) =>
          /\ \A n \in NotifyInputs :
                /\ ~Dispatch(n).raised
                /\ (n.token \/ n.url) => Dispatch(n).webhook_called
                /\ (n.token /\ n.chat /\ n.tg # "success" /\ n.url) => Dispatch(n).webhook_posted
                /\ Dispatch(n).telegram_sent <=> (n.token /\ n.chat /\ n.tg = "success")
                /\ Dispatch(n).webhook_sent <=> (n.url /\ n.wh = "success")
          /\ worker'.pc = "idle" /\ worker'.result = "done"
          /\ queue'[worker.job].status = "finished"
          /\ worker'.error_post = NoPost
          /\ events' = events
          /\ worker'.notification_delivery.telegram_sent => "telegram" \notin worker'.failed_channels
          /\ worker'.notification_delivery.webhook_sent => "webhook" \notin worker'.failed_channels
    ]_vars

\* a job returned "done" although its Telegram send failed, and the webhook was
\* still delivered
C12_Witness ==
    /\ worker.pc = "idle" /\ worker.result = "done" /\ worker.dispatched
    /\ "telegram" \in worker.failed_channels
    /\ worker.notification_delivery = [telegram_sent |-> FALSE, webhook_sent |-> TRUE]

\* ---------------------------------------------------------------- properties of SpecInference

\* the token configurations and text-completion outcomes of one normalization
NormalizeInputs ==
    UNION {{<<nvidia_token, hf_token, nv_text, hf_text>> :
               nv_text \in TextOutcomesOf(nvidia_token),
               hf_text \in TextOutcomesOf(hf_token)} :
           nvidia_token \in BOOLEAN, hf_token \in BOOLEAN}

Normalize(cache, p, i) == normalize_alert_instructions(cache, p, i[1], i[2], i[3], i[4])

\* after a normalization of p the cache maps p's key to the returned rule set, and
\* a following normalization of any prompt with that key returns it without a call
CachedAfterNormalize(cache) ==
    \A p \in Prompts, i \in NormalizeInputs :
       Strip(p) # "" =>
          LET n == Normalize(cache, p, i) IN
          /\ Has(n.cache, alert_rule_cache_key(p))
          /\ n.cache[alert_rule_cache_key(p)] = n.ret
          /\ \A q \in Prompts, j \in NormalizeInputs :
                alert_rule_cache_key(q) = alert_rule_cache_key(p) =>
                   LET m == Normalize(n.cache, q, j) IN
                   m.ret = n.ret /\ m.calls = <<>> /\ m.cache = n.cache

\* two clips with the same uncached prompt, every provider call succeeding: two
\* provider calls for the first clip, one for the second
TwoClipsThreeCalls(cache) ==
    \A p \in Prompts, q \in Prompts, nvidia_token \in BOOLEAN, hf_token \in BOOLEAN,
       c \in Completions :
       (/\ Strip(p) # "" /\ alert_rule_cache_key(q) = alert_rule_cache_key(p)
        /\ ~Has(cache, alert_rule_cache_key(p))
        /\ nvidia_token \/ hf_token) =>
          LET o == ProviderOutcomes(c, c, "ok", "ok")
              first == run_inference(cache, TRUE, p, TRUE, nvidia_token, hf_token, o)
              second == run_inference(first.cache, TRUE, q, TRUE, nvidia_token, hf_token, o)
          IN /\ Len(first.calls) = 2 /\ Len(second.calls) = 1
             /\ first.raised = NULL /\ second.raised = NULL
             /\ second.rule_set = first.rule_set

\* C13: in every reachable state of the worker process, a normalization of a
\* non-blank prompt (answered by the primary, by the fallback after a primary
\* failure, or by the default after both failed) leaves the cache mapping the
\* prompt's trimmed lower-case key to the returned rule set, and a following
\* normalization of a prompt with the same key returns that rule set with no
\* provider call; two clips with one uncached prompt cost one normalization call
\* and two clip-analysis calls; and a step changes or drops a cached entry only
\* by the clear of a full cache.
C13_CacheReturnsRules ==
    /\ [](CachedAfterNormalize(worker.rule_cache) /\ TwoClipsThreeCalls(worker.rule_cache))
    /\ [][\A k \in DOMAIN worker.rule_cache :
             \/ Has(worker'.rule_cache, k) /\ worker'.rule_cache[k] = worker.rule_cache[k]
             \/ /\ Cardinality(DOMAIN worker.rule_cache) >= ALERT_RULE_CACHE_LIMIT
                /\ Cardinality(DOMAIN worker'.rule_cache) = 1]_vars

\* a clip was analysed with a prompt whose rules were already cached beside
\* another prompt's: the clip-analysis call is the only provider call
C13_Witness ==
    /\ worker.inference.calls = <<"nvidia_video">>
    /\ worker.inference.key = "dog"
    /\ Has(worker.rule_cache, "dog") /\ Has(worker.rule_cache, "cat")
    /\ worker.inference.rule_set = worker.rule_cache["dog"]
    /\ worker.inference.rule_set.sensitivity = "high"

\* the clip-analysis calls among the provider calls of one run_inference
ClipCalls(calls) == SelectSeq(calls, LAMBDA c : c \in {"nvidia_video", "hf_image"})

\* the inputs of one run_inference beside the prompt
RunInputs ==
    UNION {{<<clip_data, frames, nvidia_token, hf_token,
              ProviderOutcomes(nv_text, hf_text, nv_video, hf_image)>> :
               clip_data \in BOOLEAN, frames \in BOOLEAN,
               nv_text \in TextOutcomesOf(nvidia_token), hf_text \in TextOutcomesOf(hf_token),
               nv_video \in CallOutcomesOf(nvidia_token),
               hf_image \in CallOutcomesOf(hf_token)} :
           nvidia_token \in BOOLEAN, hf_token \in BOOLEAN}

\* C14: in every reachable state of the worker process and for every input,
\* run_inference with clip data and a primary token makes the video-mode call
\* its first clip-analysis call; it makes the image-mode call only after a failed
\* video-mode call or without a primary token; the result is stamped "nvidia"
\* exactly when the video-mode call answered and "huggingface" exactly when the
\* image-mode call was made and answered; without any provider token, or with
\* empty clip data, it raises with no provider call and the cache untouched.
C14_PrimaryFirst ==
    \A p \in {"", "Dog", "cat"}, i \in RunInputs :
       LET clip_data == i[1]
           nvidia_token == i[3]
           hf_token == i[4]
           o == i[5]
           r == run_inference(worker.rule_cache, clip_data, p, i[2], nvidia_token, hf_token, o)
           clip_calls == ClipCalls(r.calls)
       IN /\ (clip_data /\ nvidia_token) =>
                (Len(clip_calls) >= 1 /\ clip_calls[1] = "nvidia_video")
          /\ (\E k \in 1..Len(clip_calls) : clip_calls[k] = "hf_image") =>
                /\ hf_token /\ clip_calls[Len(clip_calls)] = "hf_image"
                /\ ~nvidia_token \/ (clip_calls = <<"nvidia_video", "hf_image">>
                                     /\ o.nv_video = "error")
          /\ r.provider = "nvidia" <=>
                (clip_data /\ nvidia_token /\ o.nv_video = "ok" /\ r.raised = NULL)
          /\ r.provider = "huggingface" <=>
                /\ clip_calls # <<>> /\ clip_calls[Len(clip_calls)] = "hf_image"
                /\ o.hf_image = "ok" /\ r.raised = NULL
          /\ r.raised = NULL <=> r.provider \in {"nvidia", "huggingface"}
          /\ (~clip_data \/ (~nvidia_token /\ ~hf_token)) =>
                (r.raised # NULL /\ r.calls = <<>> /\ r.cache = worker.rule_cache)

\* a clip whose video-mode call failed was answered by the image-mode provider
C14_Witness ==
    /\ worker.inference.provider = "huggingface"
    /\ worker.inference.raised = NULL
    /\ ClipCalls(worker.inference.calls) = <<"nvidia_video", "hf_image">>

\* ---------------------------------------------------------------- properties of SpecUpload

\* the blob name upload_clip_endpoint joins to the upload root for an event
UploadBlobName(e) ==
    IF events[e].clip_blob_name # NULL THEN events[e].clip_blob_name ELSE "blob"

\* the blob names whose resolved path lies outside the upload root
EscapingBlobNames == {"../escape", "/abs/escape"}

\* C15: whenever PUT /events/{id}/upload is served for an Event whose blob name,
\* joined to the upload root and resolved, lies outside the root, the answer is
\* 400, no directory is made, no file is written and every Event row stays as it
\* was (not flipped to the local container).
C15_TraversalRejected ==
    [][\A e \in {resp'.id} :
          (/\ resp'.op = "upload_clip" /\ Has(events, e)
           /\ UploadBlobName(e) \in EscapingBlobNames) =>
             /\ resp'.code = 400
             /\ uploads' = uploads
             /\ events' = events]_vars

\* a relay upload for a cloud-bound Event whose blob name climbs out of the root
\* was refused, while another upload had been written under the root
C15_Witness ==
    /\ resp.op = "upload_clip" /\ resp.code = 400
    /\ Has(events, resp.id)
    /\ events[resp.id].clip_blob_name = "../escape"
    /\ events[resp.id].clip_container = "clips"
    /\ uploads.files = {"/root/blob"}

\* C16: in every reachable state, an Event has status done exactly when its
\* summary is not null.
C16_DoneIffSummary ==
    \A e \in DOMAIN events : events[e].status = "done" <=> events[e].summary # NULL

\* one Event is done with an empty summary text after a body without a summary
\* was refused, beside an Event that is still processing and has none
C16_Witness ==
    /\ \E e \in DOMAIN events : events[e].status = "done" /\ events[e].summary = ""
    /\ \E e \in DOMAIN events : events[e].status = "processing" /\ events[e].summary = NULL
    /\ resp.op = "update_event_summary" /\ resp.code = 422

\* ---------------------------------------------------------------- properties of SpecExpiry

\* an AuthSession row holds the token's hash, is not revoked, and has no expiry
\* or one the clock is strictly before
ValidAuthSession(token) ==
    /\ has_auth_session(hash_auth_token(token))
    /\ get_auth_session_by_token_hash(hash_auth_token(token)).revoked_at = NOTIME
    /\ LET expires_at == get_auth_session_by_token_hash(hash_auth_token(token)).expires_at
       IN expires_at = NOTIME \/ now < expires_at

\* C18 as stated: in every reachable state authenticate_request accepts a bearer
\* token exactly when an AuthSession row holds its SHA-256 hash, revoked_at is
\* null and expires_at is null or the clock is strictly before it; every other
\* request is answered 401.
C18_AcceptsIffValid ==
    \A b \in Bearers :
       /\ authenticate_request(b).code = 200 <=> (b # NoToken /\ ValidAuthSession(b))
       /\ authenticate_request(b).code \in {200, 401}

\* ---------------------------------------------------------------- create_session (SpecAuth)

\* the device exists and belongs to the user
OwnedDevice(d, u) == Has(devices, d) /\ devices[d].user_id = u

\* the Session row create_session inserts
NewSession(d, u) ==
    [device_id |-> d, user_id |-> u, status |-> "active", stopped_at |-> NOTIME]

\* C19, amended: in every reachable state create_session with a user_id inserts
\* a Session exactly when the device exists and is owned by that user, and
\* otherwise returns null and inserts nothing; without a user_id it inserts the
\* Session whether or not the device exists; POST /sessions/start answers 404
\* with no Session written for the null, and 200 with the new active Session.
C19_SessionForOwnedDevice ==
    /\ [](\A d \in DeviceIds, u \in Users \cup {NULL}, f \in Fresh(sessions, SessionIds) :
             LET r == create_session(sessions, d, u, f) IN
             IF u = NULL \/ OwnedDevice(d, u)
             THEN r.ret = f /\ r.db = Put(sessions, f, NewSession(d, u))
             ELSE r.ret = NULL /\ r.db = sessions)
    /\ [][\A b \in {resp'.bearer} :
             (resp'.op = "start_session" /\ get_request_user_id(b, TRUE).code = 200) =>
                LET u == get_request_user_id(b, TRUE).user IN
                IF u = NULL \/ OwnedDevice("d1", u)
                THEN /\ resp'.code = 200 /\ ~Has(sessions, resp'.id)
                     /\ sessions' = Put(sessions, resp'.id, NewSession("d1", u))
                ELSE resp'.code = 404 /\ sessions' = sessions]_vars

\* C19 as stated: POST /sessions/start creates a Session only if the device
\* exists, also when no user_id is given.
C19_AsStated ==
    [][(resp'.op = "start_session" /\ resp'.code = 200) =>
          Has(devices, sessions'[resp'.id].device_id)]_vars

\* a request without a user started a session on a device that has no row
C19_Witness ==
    /\ resp.op = "start_session" /\ resp.code = 200
    /\ sessions[resp.id].user_id = NULL
    /\ ~Has(devices, sessions[resp.id].device_id)

\* ---------------------------------------------------------------- stopped sessions (SpecAuth)

\* the session exists and was stopped
StoppedSession(s) == Has(sessions, s) /\ sessions[s].status = "stopped"

\* create and initiate for a stopped session are answered 200 with the Event
StoppedSessionTakesClips ==
    [][(resp'.op \in {"create_event", "initiate_upload"} /\ StoppedSession("s1")) =>
          (resp'.code = 200 /\ Has(events', resp'.id)
           /\ events'[resp'.id].session_id = "s1")]_vars

\* C20 as stated: create / initiate for a stopped session succeed, and a finalize
\* for an Event of a stopped session is answered 200 and puts a job for the
\* Event on the queue.
C20_StoppedSessionClipsProcessed ==
    /\ StoppedSessionTakesClips
    /\ [][\A e \in {resp'.id} :
             (/\ resp'.op = "finalize_upload" /\ Has(events, e)
              /\ StoppedSession(events[e].session_id)) =>
                /\ resp'.code = 200
                /\ Len(queue') = Len(queue) + 1
                /\ queue'[Len(queue')].payload.event_id = e]_vars

\* ---------------------------------------------------------------- job payloads (Spec)

\* the keys finalize passes to enqueue_inference_job
FinalizePayloadKeys ==
    {"event_id", "session_id", "device_id", "clip_blob_name", "clip_container",
     "clip_mime", "analysis_prompt"}

\* C21 as stated: a finalize served for an existing Event appends one job whose
\* payload carries the seven keys finalize passes, with the Event's id, session
\* and device.
C21_JobCarriesDevice ==
    [][\A e \in {resp'.id} :
          (resp'.op = "finalize_upload" /\ Has(events, e)) =>
             /\ Len(queue') = Len(queue) + 1
             /\ FinalizePayloadKeys \subseteq DOMAIN queue'[Len(queue')].payload
             /\ queue'[Len(queue')].payload.event_id = e
             /\ queue'[Len(queue')].payload.session_id = events[e].session_id
             /\ queue'[Len(queue')].payload.device_id = events[e].device_id]_vars

\* ---------------------------------------------------------------- reads (SpecAuth)

\* C22 as stated: under AUTH_REQUIRED a GET /sessions, GET /events or
\* GET /notifications/telegram/readiness without a bearer token is answered 401
\* and returns no data.
C22_ReadsNeedBearer ==
    [][(/\ authRequired
        /\ resp'.op \in {"list_sessions", "list_events", "telegram_readiness"}
        /\ resp'.bearer = NoToken) =>
          (resp'.code = 401 /\ resp'.body = {})]_vars

\* ---------------------------------------------------------------- messages of the status poll (SpecLink)

\* the attempts a step moves from pending to linked
LinkedByStep == {a \in DOMAIN attempts : attempts[a].status = "pending"
                                         /\ attempts'[a].status = "linked"}

\* C23, amended: while link/status processes the updates of its getUpdates pull,
\* the only sendMessage calls are link confirmations: one to the chat of each
\* attempt the request links; an update that links nothing (unknown, expired or
\* already linked token, /start without token, another command) sends nothing.
C23_PollSendsOnlyConfirmation ==
    [][resp'.op = "telegram_link_status" =>
          /\ \A i \in 1..Len(tg'.sent) :
                /\ tg'.sent[i].text = "connected"
                /\ \E a \in LinkedByStep : attempts'[a].chat_id = tg'.sent[i].chat_id
          /\ Len(tg'.sent) = Cardinality(LinkedByStep)]_vars

\* C23 as stated: a link/status request makes no sendMessage call.
C23_AsStated == [][resp'.op = "telegram_link_status" => tg'.sent = <<>>]_vars

\* a link/status poll linked a pending attempt and sent the confirmation to its chat
C23_Witness ==
    /\ resp.op = "telegram_link_status"
    /\ Len(tg.sent) = 1 /\ tg.sent[1].text = "connected"
    /\ \E a \in DOMAIN attempts :
          attempts[a].status = "linked" /\ attempts[a].chat_id = tg.sent[1].chat_id

\* ---------------------------------------------------------------- Telegram calls of the dispatcher (SpecWorker)

\* the payloads and environments of a dispatch
PayloadInputs ==
    [should_notify : BOOLEAN, token : BOOLEAN, url : BOOLEAN, device_id : {NULL, "d1"},
     lookup : TargetLookups, send_video : BOOLEAN, clip_data : BOOLEAN,
     tg : ChannelOutcomes, wh : ChannelOutcomes]

DispatchFor(p) ==
    send_outbound_notifications_for(p.should_notify, p.token, p.url, p.device_id, p.lookup,
                                    p.send_video, p.clip_data, p.tg, p.wh)

Steps == IF Has(inflight, "steps") THEN inflight["steps"] ELSE <<>>
Step(requests, name) == Put(requests, "steps", Append(Steps, name))

\* finalize_upload_endpoint lines 228-230: mark_event_clip_uploaded commits the stamp
FinalizeStamp(bearer, event_id, etag) ==
    /\ ~Has(inflight, "finalize")
    /\ LET r == mark_event_clip_uploaded(events, event_id, etag, NULL, now) IN
       IF r.ret = NULL
       THEN /\ resp' = Resp("finalize_upload", bearer, 404, NULL, event_id, {})
            /\ inflight' = Step(Put(inflight, "finalize",
                                    [pc |-> "done", event_id |-> event_id, code |-> 404]),
                                "stamp")
            /\ UNCHANGED events
       ELSE /\ events' = r.db
            /\ resp' = NoResp("finalize_stamp")
            /\ inflight' = Step(Put(inflight, "finalize",
                                    [pc |-> "enqueue", event_id |-> event_id, code |-> 0,
                                     record |-> r.db[event_id]]),
                                "stamp")
    /\ UNCHANGED <<now, authRequired, users, authSessions, devices, sessions, queue,
                   worker, attempts, tg, uploads>>

\* finalize_upload_endpoint lines 232-247: the enqueue call, made with the record
\* refreshed at the stamp, and the response
FinalizeEnqueue(broker_up) ==
    /\ Has(inflight, "finalize") /\ inflight["finalize"].pc = "enqueue"
    /\ LET f == inflight["finalize"]
           c == finalize_enqueue_call(queue, f.event_id, f.record.session_id,
                                      f.record.clip_container, broker_up)
       IN /\ queue' = c.q
          /\ resp' = IF c.raised
                     THEN Resp("finalize_upload", NoToken, 500, NULL, f.event_id, {})
                     ELSE Resp("finalize_upload", NoToken, 200, NULL, f.event_id, {f.record})
          /\ inflight' = Step(Put(inflight, "finalize",
                                  [f EXCEPT !.pc = "done",
                                            !.code = IF c.raised THEN 500 ELSE 200]),
                              "enqueue")
    /\ UNCHANGED <<now, authRequired, users, authSessions, devices, sessions, events,
                   worker, attempts, tg, uploads>>

\* force_stop_session_endpoint lines 65-68: the caller, stop_session commits
ForceStopStop(bearer, session_id) ==
    /\ ~Has(inflight, "force_stop")
    /\ LET a == get_request_user_id(bearer, TRUE)
           r == stop_session(sessions, session_id, a.user, now)
           refused(code) ==
               /\ resp' = Resp("force_stop", bearer, code, session_id, session_id, {})
               /\ inflight' = Step(Put(inflight, "force_stop",
                                       [pc |-> "done", session_id |-> session_id,
                                        code |-> code]),
                                   "stop")
               /\ UNCHANGED sessions
       IN IF a.code # 200 THEN refused(401)
          ELSE IF r.ret = NULL THEN refused(404)
          ELSE /\ sessions' = r.db
               /\ resp' = NoResp("force_stop_stop")
               /\ inflight' = Step(Put(inflight, "force_stop",
                                       [pc |-> "cancel", session_id |-> session_id,
                                        code |-> 0, user |-> a.user,
                                        record |-> r.db[session_id],
                                        dropped_queued_jobs |-> 0]),
                                   "stop")
    /\ UNCHANGED <<now, authRequired, users, authSessions, devices, events, queue,
                   worker, attempts, tg, uploads>>

\* force_stop_session_endpoint line 70: cancel_session_jobs scans the queue
ForceStopCancel(fail) ==
    /\ Has(inflight, "force_stop") /\ inflight["force_stop"].pc = "cancel"
    /\ LET s == inflight["force_stop"]
           c == cancel_session_jobs(queue, s.session_id, fail)
       IN /\ queue' = c.q
          /\ inflight' = Step(Put(inflight, "force_stop",
                                  [s EXCEPT !.pc = "delete", !.dropped_queued_jobs = c.ret]),
                              "cancel")
    /\ resp' = NoResp("force_stop_cancel")
    /\ UNCHANGED <<now, authRequired, users, authSessions, devices, sessions, events,
                   worker, attempts, tg, uploads>>

\* force_stop_session_endpoint lines 71-78: delete_processing_events_for_session
\* commits, then the response
ForceStopDelete ==
    /\ Has(inflight, "force_stop") /\ inflight["force_stop"].pc = "delete"
    /\ LET s == inflight["force_stop"]
           d == delete_processing_events_for_session(events, s.session_id, s.user)
       IN /\ events' = d.db
          /\ resp' = [Resp("force_stop", NoToken, 200, s.session_id, s.session_id, {s.record})
                        EXCEPT !.dropped_processing_events = d.ret,
                               !.dropped_queued_jobs = s.dropped_queued_jobs]
          /\ inflight' = Step(Put(inflight, "force_stop",
                                  [s EXCEPT !.pc = "done", !.code = 200]),
                              "delete")
    /\ UNCHANGED <<now, authRequired, users, authSessions, devices, sessions, queue,
                   worker, attempts, tg, uploads>>

RcStartSession ==
    \E f \in Fresh(sessions, {"s1"}) : inflight = EmptyTable /\ start_session(NoToken, "d1", f)
RcCreateEvent ==
    \E f \in Fresh(events, EventIds) :
        inflight = EmptyTable /\ create_event_endpoint(NoToken, "s1", "d1", f)
RcUpdateEventSummary ==
    inflight = EmptyTable /\ update_event_summary_endpoint(NoToken, "e2", TestSummary)
RcFinalizeStamp == \E e \in EventIds, etag \in {NULL, "etag1"} : FinalizeStamp(NoToken, e, etag)
RcFinalizeEnqueue == \E broker_up \in BOOLEAN : FinalizeEnqueue(broker_up)
RcForceStopStop == ForceStopStop(NoToken, "s1")
RcForceStopCancel == \E fail \in {NOTIME, 0} : ForceStopCancel(fail)
RcForceStopDelete == ForceStopDelete

NextRace ==
    \/ RcStartSession
    \/ RcCreateEvent
    \/ RcUpdateEventSummary
    \/ RcFinalizeStamp
    \/ RcFinalizeEnqueue
    \/ RcForceStopStop
    \/ RcForceStopCancel
    \/ RcForceStopDelete

SpecRace == Init /\ [][NextRace]_vars

BothCompleted ==
    /\ Has(inflight, "finalize") /\ inflight["finalize"].pc = "done"
    /\ Has(inflight, "force_stop") /\ inflight["force_stop"].pc = "done"

StartRequests == {"r1", "r2"}
StartSources == {"webhook", "poll"}

Say(sent, feedback, chat_id, text) ==
    IF feedback THEN Append(sent, [chat_id |-> chat_id, text |-> text]) ELSE sent

\* _process_start_token lines 258-304: get_telegram_link_attempt_by_token_hash reads
\* the attempt into the request's session; the status checks that follow use the
\* row as it was read
StartRead(r, source, chat_id_text, link_token) ==
    /\ ~Has(inflight, r)
    /\ LET found == get_telegram_link_attempt_by_token_hash(attempts, hash_token(link_token))
           feedback == source = "webhook"
           request(pc, ret) ==
               [pc |-> pc, source |-> source, chat_id |-> chat_id_text, attempt |-> found,
                device_id |-> IF found = NULL THEN NULL ELSE attempts[found].device_id,
                ret |-> ret, code |-> IF pc = "done" THEN 200 ELSE 0]
       IN IF found = NULL
          THEN /\ inflight' = Put(inflight, r, request("done", FALSE))
               /\ tg' = [tg EXCEPT !.sent = Say(tg.sent, feedback, chat_id_text,
                                                "invalid token")]
          ELSE IF attempts[found].status = "pending"
                  /\ LinkExpired(attempts[found].expires_at, now)
          THEN /\ inflight' = Put(inflight, r, request("expire", FALSE))
               /\ UNCHANGED tg
          ELSE IF attempts[found].status = "linked"
          THEN /\ inflight' = Put(inflight, r, request("done", TRUE))
               /\ tg' = [tg EXCEPT !.sent = Say(tg.sent, feedback, chat_id_text,
                                                "already linked")]
          ELSE IF attempts[found].status # "pending"
          THEN /\ inflight' = Put(inflight, r, request("done", FALSE))
               /\ tg' = [tg EXCEPT !.sent = Say(tg.sent, feedback, chat_id_text,
                                                "token expired")]
          ELSE /\ inflight' = Put(inflight, r, request("link_device", FALSE))
               /\ UNCHANGED tg
    /\ resp' = NoResp("start_read")
    /\ UNCHANGED <<now, authRequired, users, authSessions, devices, sessions, events,
                   queue, worker, attempts, uploads>>

\* _process_start_token lines 274-304: mark_telegram_link_attempt_expired commits
\* status = "expired" on the row read, whatever the row holds by now; the row is
\* read again and is not pending
StartExpire(r) ==
    /\ Has(inflight, r) /\ inflight[r].pc = "expire"
    /\ attempts' = mark_telegram_link_attempt_expired(attempts, inflight[r].attempt)
    /\ tg' = [tg EXCEPT !.sent = Say(tg.sent, inflight[r].source = "webhook",
                                     inflight[r].chat_id, "token expired")]
    /\ inflight' = Put(inflight, r, [inflight[r] EXCEPT !.pc = "done", !.code = 200])
    /\ resp' = NoResp("start_expire")
    /\ UNCHANGED <<now, authRequired, users, authSessions, devices, sessions, events,
                   queue, worker, uploads>>

\* _process_start_token lines 306-311: link_device_telegram_chat commits the device row
StartLinkDevice(r) ==
    /\ Has(inflight, r) /\ inflight[r].pc = "link_device"
    /\ devices' = link_device_telegram_chat(devices, inflight[r].device_id,
                                            inflight[r].chat_id, NULL, now)
    /\ inflight' = Put(inflight, r, [inflight[r] EXCEPT !.pc = "mark_linked"])
    /\ resp' = NoResp("start_link_device")
    /\ UNCHANGED <<now, authRequired, users, authSessions, sessions, events, queue,
                   worker, attempts, tg, uploads>>

\* _process_start_token lines 312-325: mark_telegram_link_attempt_linked commits
\* status, linked_at and chat_id on the row read, then the confirmation is sent.
\* fail: the commit raises (the database is unreachable) and the request ends in
\* 500; the device row committed by the step before stays
StartMarkLinked(r, fail) ==
    /\ Has(inflight, r) /\ inflight[r].pc = "mark_linked"
    /\ IF fail
       THEN /\ inflight' = Put(inflight, r, [inflight[r] EXCEPT !.pc = "done", !.code = 500])
            /\ UNCHANGED <<attempts, tg>>
       ELSE /\ attempts' = mark_telegram_link_attempt_linked(attempts, inflight[r].attempt,
                                                             inflight[r].chat_id, now)
            /\ tg' = [tg EXCEPT !.sent = Say(tg.sent, TRUE, inflight[r].chat_id, "connected")]
            /\ inflight' = Put(inflight, r, [inflight[r] EXCEPT !.pc = "done", !.ret = TRUE,
                                                              !.code = 200])
    /\ resp' = NoResp("start_mark_linked")
    /\ UNCHANGED <<now, authRequired, users, authSessions, devices, sessions, events,
                   queue, worker, uploads>>

RaCreateAttempt ==
    \E a \in Fresh(attempts, {"a1"}) :
        create_telegram_link_attempt_call("d1", NULL, LinkTokenOf[a], a)
RaRead ==
    \E r \in StartRequests, source \in StartSources, c \in Chats, k \in {"k1", "k-unknown"} :
        /\ (r = "r2" => Has(inflight, "r1"))
        /\ (k = "k-unknown" => c = "c1")
        /\ StartRead(r, source, c, k)
RaExpire == \E r \in StartRequests : StartExpire(r)
RaLinkDevice == \E r \in StartRequests : StartLinkDevice(r)
RaMarkLinked == \E r \in StartRequests, fail \in BOOLEAN : StartMarkLinked(r, fail)

NextLinkRace ==
    \/ Tick
    \/ RaCreateAttempt
    \/ RaRead
    \/ RaExpire
    \/ RaLinkDevice
    \/ RaMarkLinked

SpecLinkRace == Init /\ [][NextLinkRace]_vars

\* C26 as stated: with two requests on the same pending attempt interleaved at
\* their reads and commits, an attempt that has left pending keeps its status and
\* its chat: it is not linked a second time to another chat, not moved from linked
\* to expired and not from expired to linked.
C26_OneTransition ==
    [][\A a \in DOMAIN attempts :
          attempts[a].status # "pending" =>
             /\ attempts'[a].status = attempts[a].status
             /\ attempts'[a].chat_id = attempts[a].chat_id]_vars

\* C27 as stated: in no state, between the steps of a request or after a request
\* that failed, does the device carry a chat id while its one attempt is pending,
\* or is the attempt linked to a chat the device does not carry.
C27_LinkAtomic ==
    \A a \in DOMAIN attempts :
       LET d == attempts[a].device_id IN
       /\ attempts[a].status = "pending" =>
             (Has(devices, d) => devices[d].telegram_chat_id = NULL)
       /\ attempts[a].status = "linked" =>
             (Has(devices, d) /\ devices[d].telegram_chat_id = attempts[a].chat_id)

\* ---------------------------------------------------------------- register_device, step by step (SpecClaim)

ClaimRequests == {"r1", "r2"}

\* register_device_endpoint line 23 and register_device lines 123-128: the caller,
\* db.get reads the device row, and the branch is chosen on the row as read
RegisterRead(r, bearer, device_id) ==
    /\ ~Has(inflight, r)
    /\ LET a == get_request_user_id(bearer, TRUE)
           request(pc, code, owner) ==
               [pc |-> pc, bearer |-> bearer, device_id |-> device_id, user |-> a.user,
                code |-> code, owner |-> owner]
       IN inflight' =
            Put(inflight, r,
                IF a.code # 200 THEN request("done", 401, NULL)
                ELSE IF ~Has(devices, device_id) THEN request("insert", 0, NULL)
                ELSE LET e == register_existing_device(devices, device_id, a.user) IN
                     IF e.ret = "ValueError" THEN request("done", 404, NULL)
                     ELSE IF e.db # devices THEN request("claim", 0, NULL)
                     ELSE request("done", 200, devices[device_id].user_id))
    /\ resp' = NoResp("register_read")
    /\ UNCHANGED <<now, authRequired, users, authSessions, devices, sessions, events,
                   queue, worker, attempts, tg, uploads>>

\* register_device lines 129-132: existing.user_id = user_id, commit, refresh; the
\* UPDATE writes user_id by primary key, whatever the row holds by now
RegisterClaim(r) ==
    /\ Has(inflight, r) /\ inflight[r].pc = "claim"
    /\ devices' = [devices EXCEPT ![inflight[r].device_id].user_id = inflight[r].user]
    /\ inflight' = Put(inflight, r, [inflight[r] EXCEPT !.pc = "done", !.code = 200,
                                                      !.owner = inflight[r].user])
    /\ resp' = Resp("register_device", inflight[r].bearer, 200, NULL, inflight[r].device_id,
                    {devices'[inflight[r].device_id]})
    /\ UNCHANGED <<now, authRequired, users, authSessions, sessions, events, queue,
                   worker, attempts, tg, uploads>>

\* register_device lines 133-142: the INSERT; the primary key refuses a second row
\* for the device_id (IntegrityError, 500)
RegisterInsert(r) ==
    /\ Has(inflight, r) /\ inflight[r].pc = "insert"
    /\ LET q == inflight[r] IN
       IF Has(devices, q.device_id)
       THEN /\ inflight' = Put(inflight, r, [q EXCEPT !.pc = "done", !.code = 500])
            /\ resp' = Resp("register_device", q.bearer, 500, NULL, q.device_id, {})
            /\ UNCHANGED devices
       ELSE /\ devices' = register_device(devices, q.device_id, q.user, now, q.device_id).db
            /\ inflight' = Put(inflight, r, [q EXCEPT !.pc = "done", !.code = 200,
                                                      !.owner = q.user])
            /\ resp' = Resp("register_device", q.bearer, 200, NULL, q.device_id,
                            {devices'[q.device_id]})
    /\ UNCHANGED <<now, authRequired, users, authSessions, sessions, events, queue,
                   worker, attempts, tg, uploads>>

CmCreateUser == \E u \in {"u1", "u2"} : create_user_call(u)
CmLogin ==
    \E u \in {"u1", "u2"} : create_auth_session_call(IF u = "u1" THEN "t1" ELSE "t2", u, NOTIME)
CmRegisterDevice ==
    \E f \in Fresh(devices, {"d1"}) :
        inflight = EmptyTable /\ register_device_endpoint(NoToken, "d1", f)
CmRead ==
    \E r \in ClaimRequests, b \in {"t1", "t2"} :
        /\ (r = "r2" => Has(inflight, "r1"))
        /\ RegisterRead(r, b, "d1")
CmClaim == \E r \in ClaimRequests : RegisterClaim(r)
CmInsert == \E r \in ClaimRequests : RegisterInsert(r)

NextClaim ==
    \/ CmCreateUser
    \/ CmLogin
    \/ CmRegisterDevice
    \/ CmRead
    \/ CmClaim
    \/ CmInsert

SpecClaim == Init /\ [][NextClaim]_vars

\* C28 as stated: with the register_device calls of two users for one unclaimed
\* device interleaved at their read and commit steps, two different users are
\* never both answered as owner, and a device's user_id, once written, is not
\* written again.
C28_OneOwner ==
    /\ [](\A r, q \in ClaimRequests :
            (/\ Has(inflight, r) /\ Has(inflight, q)
             /\ inflight[r].pc = "done" /\ inflight[q].pc = "done"
             /\ inflight[r].code = 200 /\ inflight[q].code = 200
             /\ inflight[r].owner # NULL /\ inflight[q].owner # NULL) =>
               inflight[r].owner = inflight[q].owner)
    /\ [][\A d \in DOMAIN devices :
             devices[d].user_id # NULL => devices'[d].user_id = devices[d].user_id]_vars

\* ---------------------------------------------------------------- dispatch after writeback (SpecWorker)

\* C29: the notification dispatcher is invoked only after the verdict writeback of
\* the job succeeded and only for a verdict with should_notify true: whenever the
\* worker is about to dispatch or has dispatched, the job is not a test-mode job,
\* its verdict is should_notify, the verdict post was delivered and the Event is
\* done, and no error summary was posted; the dispatch happens only from the step
\* that follows the writeback; a job that returns "error" never dispatched.
C29_DispatchAfterWriteback ==
    /\ []((worker.pc = "notify" \/ worker.dispatched) =>
             /\ worker.notify /\ ~worker.test_mode
             /\ worker.verdict_post.delivered
             /\ Has(events, worker.event_id) /\ events[worker.event_id].status = "done"
             /\ worker.cause = NULL /\ ~worker.error_post.attempted)
    /\ []((worker.result = "error" \/ worker.pc = "errorpost") => ~worker.dispatched)
    /\ [][(worker'.dispatched /\ ~worker.dispatched) =>
             (worker.pc = "notify" /\ worker.verdict_post.delivered)]_vars

\* a should_notify job that returned "done" after its verdict was written and its
\* alert dispatched on both channels
C29_Witness ==
    /\ worker.pc = "idle" /\ worker.result = "done" /\ worker.dispatched
    /\ worker.notify /\ worker.verdict_post.delivered
    /\ events[worker.event_id].status = "done"
    /\ worker.notification_delivery = [telegram_sent |-> TRUE, webhook_sent |-> TRUE]

\* ---------------------------------------------------------------- expired link tokens (SpecLink)

\* C30: in every reachable state, a /start message carrying the token of an
\* attempt with now > expires_at, processed with user feedback (webhook) or
\* without (status poll) and from any chat, never links: a pending attempt becomes
\* expired, any other keeps its status, its chat_id stays, every other attempt row
\* and every device row stay as they are, and a token that was not linked is
\* reported as not linked; and no step of any handler changes the chat_id of an
\* attempt that is past its expiry and not linked, or moves it to linked.
C30_ExpiredNeverLinks ==
    /\ [](\A a \in DOMAIN attempts, c \in Chats, fb \in BOOLEAN :
            attempts[a].expires_at < now =>
               LET d == StartDelivery(c, LinkTokenOf[a], fb) IN
               /\ d.ls.attempts[a].status =
                     IF attempts[a].status = "pending" THEN "expired" ELSE attempts[a].status
               /\ d.ls.attempts[a].chat_id = attempts[a].chat_id
               /\ \A b \in DOMAIN attempts \ {a} : d.ls.attempts[b] = attempts[b]
               /\ d.ls.devices = devices
               /\ d.ret <=> attempts[a].status = "linked")
    /\ [][\A a \in DOMAIN attempts :
             (attempts[a].expires_at < now /\ attempts[a].status # "linked") =>
                (attempts'[a].status # "linked" /\ attempts'[a].chat_id = attempts[a].chat_id)]_vars

\* the webhook served a /start whose token had expired: the attempt went from
\* pending to expired in that step, without a chat, and the sender was told
C30_Witness ==
    /\ resp.op = "telegram_webhook"
    /\ Len(tg.sent) = 1 /\ tg.sent[1].text = "token expired"
    /\ \E a \in DOMAIN attempts :
          /\ attempts[a].status = "expired" /\ attempts[a].chat_id = NULL
          /\ attempts[a].expires_at < now
          /\ Has(devices, attempts[a].device_id)
          /\ devices[attempts[a].device_id].telegram_chat_id = NULL

\* ---------------------------------------------------------------- the worker with the API reachable (SpecWorkerLive)

\* every POST /events/{id}/summary of the worker reaches the API
LvWriteback == WorkerWriteback(TRUE)
LvErrorPost == WorkerErrorPost(TRUE)

NextWorkerLive ==
    \/ WkStartSession
    \/ WkCreateEvent
    \/ WkEnqueue
    \/ WkDequeue
    \/ WkDownload
    \/ WkInference
    \/ LvWriteback
    \/ WkNotify
    \/ LvErrorPost

\* process_clip is straight-line code run to completion by the rq worker: a step
\* that is enabled is eventually taken.  Nothing obliges a job to be enqueued or
\* dequeued.
SpecWorkerLive ==
    /\ Init /\ [][NextWorkerLive]_vars
    /\ WF_vars(WkDownload) /\ WF_vars(WkInference) /\ WF_vars(LvWriteback)
    /\ WF_vars(WkNotify) /\ WF_vars(LvErrorPost)

Returned == worker.pc = "idle" /\ worker.result \in {"done", "error"}

\* C31: with the API reachable, a job in process_clip whose Event exists leads to
\* process_clip having returned with the Event done; and process_clip, once
\* started, always returns, with status done or error.
C31_EventuallyDone ==
    /\ \A e \in EventIds :
          (worker.pc # "idle" /\ worker.event_id = e /\ Has(events, e))
             ~> (Returned /\ worker.event_id = e
                 /\ Has(events, e) /\ events[e].status = "done")
    /\ (worker.pc # "idle") ~> Returned

\* a job whose download failed returned "error" after the error summary brought
\* its Event to done
C31_Witness ==
    /\ Returned /\ worker.result = "error" /\ worker.cause = "download"
    /\ worker.error_post.delivered
    /\ Has(events, worker.event_id) /\ events[worker.event_id].status = "done"
    /\ events[worker.event_id].label = "error"

\* ---------------------------------------------------------------- size of the rule cache (SpecInference)

CacheSize(cache) == Cardinality(DOMAIN cache)

\* C32: the prompt-to-rules cache never holds more than ALERT_RULE_CACHE_LIMIT
\* entries; in every reachable state an insertion into a cache that holds the
\* limit leaves exactly the inserted entry, and an insertion into a cache below
\* the limit keeps every other entry; a step that changes a full cache leaves it
\* with one entry.
C32_CacheBounded ==
    /\ [](/\ CacheSize(worker.rule_cache) <= ALERT_RULE_CACHE_LIMIT
          /\ \A p \in Prompts, text \in Completions :
                LET cache == worker.rule_cache
                    k == alert_rule_cache_key(p)
                    after == set_cached_alert_rules(cache, p, parse_alert_rule_set(text))
                IN /\ CacheSize(after) <= ALERT_RULE_CACHE_LIMIT
                   /\ after[k] = parse_alert_rule_set(text)
                   /\ CacheSize(cache) >= ALERT_RULE_CACHE_LIMIT => DOMAIN after = {k}
                   /\ CacheSize(cache) < ALERT_RULE_CACHE_LIMIT =>
                         /\ DOMAIN after = DOMAIN cache \cup {k}
                         /\ \A j \in DOMAIN cache \ {k} : after[j] = cache[j])
    /\ [][(/\ CacheSize(worker.rule_cache) >= ALERT_RULE_CACHE_LIMIT
           /\ worker'.rule_cache # worker.rule_cache) =>
              (/\ CacheSize(worker'.rule_cache) = 1
               /\ DOMAIN worker'.rule_cache = {worker'.inference.key})]_vars

\* the cache is full: the normalization just made was a miss whose entry filled it
C32_Witness ==
    /\ CacheSize(worker.rule_cache) = ALERT_RULE_CACHE_LIMIT
    /\ Has(worker.rule_cache, worker.inference.key)
    /\ Len(worker.inference.calls) >= 1
    /\ worker.inference.calls[1] \in {"nvidia_text", "hf_text"}

\* ---------------------------------------------------------------- getUpdates pulls of link/status (SpecPoll)

PoRegisterDevice ==
    \E d \in DeviceIds, f \in Fresh(devices, DeviceIds) : register_device_endpoint(NoToken, d, f)
PoCreateAttempt ==
    \E a \in Fresh(attempts, {"a1"}) :
        create_telegram_link_attempt_call("d1", NULL, LinkTokenOf[a], a)
PoWebhook ==
    \E c \in Chats : telegram_webhook(TRUE, TRUE, TRUE, Message(c, "/start", "k1"))
PoLinkStatus ==
    \E d \in DeviceIds, a \in AttemptIds, i \in PollInputs :
        telegram_link_status(i.bot, d, a, i.outcome, i.updates)

NextPoll ==
    \/ Tick
    \/ PoRegisterDevice
    \/ PoCreateAttempt
    \/ PoWebhook
    \/ PoLinkStatus

SpecPoll == Init /\ [][NextPoll]_vars

\* C33: a link/status request calls getUpdates exactly when the bot token is
\* configured, the device and the attempt exist, the attempt is the device's and it
\* is pending when the request arrives; never for a linked, expired, unknown or
\* mismatched attempt.  Within one request there are at most two getUpdates
\* calls and at most one deleteWebhook call; a second getUpdates is made only
\* after the one deleteWebhook, which follows the first getUpdates.
C33_PollOnlyPending ==
    [][resp'.op = "telegram_link_status" =>
          \A a \in {resp'.id}, d \in DeviceIds, i \in PollInputs :
             telegram_link_status(i.bot, d, a, i.outcome, i.updates) =>
                LET calls == telegram_sync_calls(i.outcome)
                    polled == /\ i.bot /\ Has(devices, d) /\ Has(attempts, a)
                              /\ attempts[a].device_id = d
                              /\ attempts[a].status = "pending"
                IN /\ tg'.polls > 0 <=> polled
                   /\ polled =>
                         /\ tg'.polls = CallsOf(calls, "getUpdates")
                         /\ tg'.polls <= 2
                         /\ CallsOf(calls, "deleteWebhook") <= 1
                         /\ calls[1] = "getUpdates"
                         /\ tg'.polls = 2 => calls = <<"getUpdates", "deleteWebhook", "getUpdates">>
                         /\ Len(calls) <= 3]_vars

\* a poll for a pending attempt met a conflict, deleted the webhook and retried
\* once; the attempt is still pending
C33_Witness ==
    /\ resp.op = "telegram_link_status" /\ tg.polls = 2
    /\ resp.body = LinkBody("pending", FALSE)
    /\ Has(attempts, resp.id) /\ attempts[resp.id].status = "pending"

\* ---------------------------------------------------------------- cancel_session_jobs (SpecForceStop)

\* C34: in every reachable state of the queue and for every session S,
\* cancel_session_jobs(S) without a queue error cancels exactly the queued jobs
\* whose payload session_id is S, leaves every other job as it is and returns the
\* number of jobs it canceled; with the queue unavailable (get_queue or a cancel
\* raises) it returns 0, touches no job of another session, and the force-stop
\* request that called it still answers 200.
C34_CancelExactly ==
    /\ [](\A s \in SessionIds, fail \in {NOTIME} \cup 0..MaxJobs :
            LET c == cancel_session_jobs(queue, s, fail)
                mine == PendingJobsOf(queue, s)
                error == fail # NOTIME /\ fail <= Cardinality(mine)
            IN /\ Len(c.q) = Len(queue)
               /\ \A i \in 1..Len(queue) : i \notin mine => c.q[i] = queue[i]
               /\ \A i \in mine : c.q[i].payload = queue[i].payload
               /\ CanceledBy(queue, c.q) \subseteq mine
               /\ ~error => (CanceledBy(queue, c.q) = mine
                             /\ c.ret = Cardinality(mine))
               /\ error => c.ret = 0
               /\ fail = 0 => c.q = queue)
    /\ [][(resp'.op = "force_stop" /\ resp'.code = 200) =>
             /\ CanceledBy(queue, queue') \subseteq PendingJobsOf(queue, resp'.session_id)
             /\ resp'.dropped_queued_jobs \in {0, Cardinality(CanceledBy(queue, queue'))}]_vars

\* a force-stop canceled the one queued job of its session and left the queued
\* job of the other session in the queue
C34_Witness ==
    /\ resp.op = "force_stop" /\ resp.code = 200 /\ resp.dropped_queued_jobs = 1
    /\ \E i, j \in 1..Len(queue) :
          /\ queue[i].status = "canceled" /\ queue[i].payload.session_id = resp.session_id
          /\ queue[j].status = "queued" /\ queue[j].payload.session_id # resp.session_id

\* ---- SpecStopFrame: two users, two sessions and their events under force-stop
SfCreateUser == \E u \in Users : create_user_call(u)
SfLogin == \E u \in Users : create_auth_session_call(TokenOf[u], u, NOTIME)
SfRegisterDevice ==
    \E b \in Tokens, f \in Fresh(devices, {"d2"}) : register_device_endpoint(b, "d1", f)
SfStartSession ==
    \E b \in Tokens \cup {NoToken},
       f \in Fresh(sessions, IF Has(sessions, "s1") THEN {"s2"} ELSE {"s1"}) :
        start_session(b, "d1", f)
SfCreateEvent ==
    \E s \in SessionIds, f \in Fresh(events, EventIds) :
        create_event_endpoint(NoToken, s, "d1", f)
SfUpdateEventSummary == update_event_summary_endpoint(NoToken, "e1", ErrorSummary)
\* one job at a time is enough to see whether a refused force-stop cancels it
SfEnqueue ==
    \E s \in SessionIds : queue = <<>> /\ enqueue_inference_job_call("e1", s, TRUE)
SfForceStop ==
    \E b \in Tokens \cup {NoToken}, s \in SessionIds : force_stop_session_endpoint(b, s, NOTIME)
SfStopSession ==
    \E b \in Tokens \cup {NoToken}, s \in SessionIds : stop_session_endpoint(b, s)

NextStopFrame ==
    \/ SfCreateUser
    \/ SfLogin
    \/ SfRegisterDevice
    \/ SfStartSession
    \/ SfCreateEvent
    \/ SfUpdateEventSummary
    \/ SfEnqueue
    \/ SfForceStop
    \/ SfStopSession

SpecStopFrame == Init /\ [][NextStopFrame]_vars

\* the user a bearer token authenticates as, NULL for none
CallerOf(bearer) == get_request_user_id(bearer, TRUE).user

\* C35: a successful force-stop of S deletes exactly the processing Events of S (those
\* of the caller when the request is authenticated) and changes no other Event; a
\* force-stop of a session that does not exist or belongs to another user answers 404
\* and changes no session, no job and no Event.
C35_ForceStopFrame ==
    [][resp'.op = "force_stop" =>
         LET s == resp'.session_id
             u == CallerOf(resp'.bearer)
             gone == DOMAIN events \ DOMAIN events'
         IN /\ resp'.code = 200 =>
                 /\ gone = {e \in DOMAIN events :
                              /\ events[e].session_id = s
                              /\ events[e].status = "processing"
                              /\ (u # NULL => events[e].user_id = u)}
                 /\ DOMAIN events' \subseteq DOMAIN events
                 /\ \A e \in DOMAIN events' : events'[e] = events[e]
                 /\ \A x \in DOMAIN sessions : x # s => sessions'[x] = sessions[x]
            /\ (resp'.code = 200 /\ (~Has(sessions, s)
                                      \/ (u # NULL /\ sessions[s].user_id # u))) => FALSE
            /\ resp'.code # 200 => UNCHANGED <<sessions, queue, events>>
            /\ (get_request_user_id(resp'.bearer, TRUE).code = 200
                /\ (~Has(sessions, s) \/ (u # NULL /\ sessions[s].user_id # u)))
                  => resp'.code = 404]_vars

\* C35 witness: a force-stop of one session deleted its processing event and kept the
\* done event of the same session
C35_Witness ==
    /\ resp.op = "force_stop" /\ resp.code = 200 /\ resp.dropped_processing_events = 1
    /\ \E e \in DOMAIN events :
          events[e].session_id = resp.session_id /\ events[e].status = "done"

\* ---- SpecDeleted: force-stop deletes the Event of a job the worker is running
DlStartSession == \E f \in Fresh(sessions, {"s1"}) : start_session(NoToken, "d1", f)
DlCreateEvent == \E f \in Fresh(events, {"e1"}) : create_event_endpoint(NoToken, "s1", "d1", f)
\* finalize enqueues a job only for an Event it found
DlEnqueue == Has(events, "e1") /\ enqueue_inference_job_call("e1", "s1", TRUE)
DlForceStop == force_stop_session_endpoint(NoToken, "s1", NOTIME)
DlSummary ==
    \E e \in EventIds : update_event_summary_endpoint(NoToken, e, VerdictSummary(FALSE))
DlDequeue == \E test_mode \in BOOLEAN : WorkerDequeue(test_mode)
DlDownload == \E ok \in BOOLEAN : WorkerDownload(ok)
DlInference == \E outcome \in {"fail", "notify", "quiet"} : WorkerInference(outcome)
DlWriteback == \E api_up \in BOOLEAN : WorkerWriteback(api_up)
DlNotify ==
    \E n \in {NotifyInput(TRUE, FALSE, chat, t, "success") :
                 chat \in BOOLEAN, t \in {"success", "http_error"}} :
        WorkerNotify(FALSE, n)
DlErrorPost == \E api_up \in BOOLEAN : WorkerErrorPost(api_up)

NextDeleted ==
    \/ DlStartSession
    \/ DlCreateEvent
    \/ DlEnqueue
    \/ DlForceStop
    \/ DlSummary
    \/ DlDequeue
    \/ DlDownload
    \/ DlInference
    \/ DlWriteback
    \/ DlNotify
    \/ DlErrorPost

SpecDeleted == Init /\ [][NextDeleted]_vars

\* C36: no step of the worker and no summary writeback adds an Event row; a writeback
\* for an id that has no row answers 404; a job whose Event has no row when process_clip
\* returns ends with status error, leaves no row for that id and has dispatched no
\* notification, and the dispatcher only ever runs for an Event that is done.
C36_DeletedStaysDeleted ==
    /\ [](\A e \in EventIds, p \in SummaryRequests :
             /\ ~Has(events, e) =>
                   /\ update_event_summary(events, e, p) = [db |-> events, ret |-> NULL]
                   /\ post_event_summary(events, e, p, TRUE) = [db |-> events, ok |-> FALSE]
             /\ DOMAIN update_event_summary(events, e, p).db = DOMAIN events)
    /\ [](worker.pc = "notify" =>
             Has(events, worker.event_id) /\ events[worker.event_id].status = "done")
    /\ [][/\ (worker' # worker \/ resp'.op = "update_event_summary")
             => DOMAIN events' = DOMAIN events
          /\ (resp'.op = "update_event_summary" /\ ~Has(events, resp'.id))
             => resp'.code \in {404, 422}
          /\ (worker.pc # "idle" /\ worker'.pc = "idle" /\ ~Has(events, worker.event_id))
             => /\ worker'.result = "error"
                /\ ~worker'.dispatched
                /\ ~Has(events', worker.event_id)]_vars

\* C36 witness: the worker took a job, force-stop deleted its Event, the verdict post
\* failed at the writeback and the job returned error with no row and no dispatch
C36_Witness ==
    /\ worker.pc = "idle" /\ worker.result = "error" /\ worker.cause = "writeback"
    /\ worker.event_id = "e1" /\ ~Has(events, "e1")
    /\ worker.error_post.attempted /\ ~worker.error_post.delivered
    /\ ~worker.dispatched
    /\ Has(sessions, "s1") /\ sessions["s1"].status = "stopped"

\* ---- SpecFinalize: repeated finalize calls for one Event, and the jobs of one Event
\* the worker runs; the jobs are enqueued with the parameters queue.py declares
FzStartSession == \E f \in Fresh(sessions, {"s1"}) : start_session(NoToken, "d1", f)
FzCreateEvent == \E f \in Fresh(events, {"e1"}) : create_event_endpoint(NoToken, "s1", "d1", f)
FzFinalizeUpload ==
    \E e \in EventIds, t \in {"etag-a", NULL}, up \in BOOLEAN :
        finalize_upload_endpoint(NoToken, e, t, up)
FzEnqueue == Has(events, "e1") /\ enqueue_inference_job_call("e1", "s1", TRUE)
FzDequeue == WorkerDequeue(FALSE)
FzDownload == \E ok \in BOOLEAN : WorkerDownload(ok)
FzInference == \E outcome \in {"fail", "notify", "quiet"} : WorkerInference(outcome)
FzWriteback == \E api_up \in BOOLEAN : WorkerWriteback(api_up)
FzNotify ==
    \E t \in {"success", "http_error"} :
        WorkerNotify(FALSE, NotifyInput(TRUE, FALSE, TRUE, t, "success"))
FzErrorPost == \E api_up \in BOOLEAN : WorkerErrorPost(api_up)

NextFinalize ==
    \/ FzStartSession
    \/ FzCreateEvent
    \/ FzFinalizeUpload
    \/ FzEnqueue
    \/ FzDequeue
    \/ FzDownload
    \/ FzInference
    \/ FzWriteback
    \/ FzNotify
    \/ FzErrorPost

SpecFinalize == Init /\ [][NextFinalize]_vars

RnStartSession ==
    \E d \in DeviceIds, f \in Fresh(sessions, {"s1"}) : start_session(NoToken, d, f)
RnInitiateUpload ==
    \E d \in DeviceIds, cloud \in BOOLEAN, f \in Fresh(events, {"e2"}) :
        initiate_upload_endpoint(NoToken, "e1", "s1", d, cloud, f)
RnCreateEvent == \E f \in Fresh(events, {"e2"}) : create_event_endpoint(NoToken, "s1", "d1", f)
RnEnqueue == Has(events, "e1") /\ enqueue_inference_job_call("e1", "s1", TRUE)
RnSummary ==
    \E e \in EventIds : update_event_summary_endpoint(NoToken, e, VerdictSummary(FALSE))
RnForceStop == force_stop_session_endpoint(NoToken, "s1", NOTIME)

NextRecreate ==
    \/ Tick
    \/ RnStartSession
    \/ RnInitiateUpload
    \/ RnCreateEvent
    \/ RnEnqueue
    \/ RnSummary
    \/ RnForceStop

SpecRecreate == Init /\ [][NextRecreate]_vars

\* C38: when no row has the id E, session S exists (stopped or not) and the request
\* names the device of S, an initiate for S with event_id = E answers 200 and inserts
\* E as a new row of S with status processing and no upload stamp, and store.create_event
\* called with event_id = E does the same; that E was deleted before changes nothing.
C38_DeletedIdReusable ==
    /\ [](\A s \in DOMAIN sessions, e \in EventIds \ DOMAIN events :
             LET r == create_event(events, s, sessions[s].device_id, "client-uri", e,
                                   NULL, NULL, e)
             IN /\ r.ret = e
                /\ DOMAIN r.db = DOMAIN events \cup {e}
                /\ r.db[e].status = "processing"
                /\ r.db[e].session_id = s)
    /\ [][(resp'.op = "initiate_upload" /\ ~Has(events, resp'.id)
           /\ Has(sessions, resp'.session_id)) =>
            \A d \in DeviceIds, cloud \in BOOLEAN, f \in Fresh(events, EventIds) :
               (/\ d = sessions[resp'.session_id].device_id
                /\ initiate_upload_endpoint(resp'.bearer, resp'.id, resp'.session_id, d,
                                            cloud, f))
               => /\ resp'.code = 200
                  /\ Has(events', resp'.id)
                  /\ events'[resp'.id].status = "processing"
                  /\ events'[resp'.id].session_id = resp'.session_id
                  /\ events'[resp'.id].clip_uploaded_at = NOTIME
                  /\ events'[resp'.id].summary = NULL
                  /\ sessions' = sessions]_vars

\* C38 witness: a job of E was canceled by the force-stop that deleted E, S is stopped,
\* and the initiate just answered created E again, processing
C38_Witness ==
    /\ resp.op = "initiate_upload" /\ resp.code = 200 /\ resp.id = "e1"
    /\ Has(events, "e1") /\ events["e1"].status = "processing"
    /\ sessions["s1"].status = "stopped"
    /\ \E i \in 1..Len(queue) :
          queue[i].payload.event_id = "e1" /\ queue[i].status = "canceled"

\* ---------------------------------------------------------------- session status (SpecStopFrame)

\* C39: every Session row has stopped_at set exactly when its status is stopped, and a
\* row that is stopped stays a stopped row through start, stop, force-stop and a
\* repeated stop.
C39_StoppedStaysStopped ==
    /\ [](\A s \in DOMAIN sessions :
             /\ sessions[s].status \in {"active", "stopped"}
             /\ (sessions[s].stopped_at # NOTIME) <=> (sessions[s].status = "stopped"))
    /\ [][\A s \in DOMAIN sessions :
             sessions[s].status = "stopped" =>
                Has(sessions', s) /\ sessions'[s].status = "stopped"]_vars

\* C39 witness: a stop answered 200 for a session an earlier force-stop had already
\* stopped (it canceled the job), while the other session is active
C39_Witness ==
    /\ resp.op = "stop_session" /\ resp.code = 200
    /\ sessions[resp.session_id].status = "stopped"
    /\ \E i \in 1..Len(queue) :
          queue[i].payload.session_id = resp.session_id /\ queue[i].status = "canceled"
    /\ \E s \in DOMAIN sessions : sessions[s].status = "active"

\* ---------------------------------------------------------------- inference.py: clip MIME

\* A MIME string is a sequence of pieces: a blank, the separator ";", a type, or a
\* parameter; a string is at most MaxMimeLen pieces long.
MaxMimeLen == 3
Blank == " "
Semicolon == ";"
MimePieces ==
    {Blank, Semicolon, "video/webm", "VIDEO/MP4", "video/x-matroska", "text/plain",
     "codecs=vp8,opus"}
RECURSIVE SeqsUpTo(_, _)
SeqsUpTo(S, n) ==
    IF n = 0 THEN {<<>>}
    ELSE LET shorter == SeqsUpTo(S, n - 1) IN
         shorter \cup {Append(m, x) : m \in {t \in shorter : Len(t) = n - 1}, x \in S}
\* the values of clip_mime: None and the strings
NoMime == <<"None">>
ClipMimes == {NoMime} \cup SeqsUpTo(MimePieces, MaxMimeLen)

SUPPORTED_VIDEO_MIME_TYPES ==
    {<<"video/mp4">>, <<"video/webm">>, <<"video/quicktime">>, <<"video/mov">>}

\* str.lower
LowerPiece(x) == IF x = "VIDEO/MP4" THEN "video/mp4" ELSE x
LowerMime(m) == [i \in 1..Len(m) |-> LowerPiece(m[i])]

\* str.strip: the blanks at both ends go
RECURSIVE StripMime(_)
StripMime(m) ==
    IF m = <<>> THEN m
    ELSE IF Head(m) = Blank THEN StripMime(Tail(m))
    ELSE IF m[Len(m)] = Blank THEN StripMime(SubSeq(m, 1, Len(m) - 1))
    ELSE m

\* str.split(";", 1)[0]: what stands before the first ";"
RECURSIVE SplitFirst(_)
SplitFirst(m) ==
    IF m = <<>> \/ Head(m) = Semicolon THEN <<>>
    ELSE <<Head(m)>> \o SplitFirst(Tail(m))

\* str.startswith("video/")
StartsWithVideo(m) ==
    m # <<>> /\ m[1] \in {"video/mp4", "video/webm", "video/x-matroska"}

\* inference._normalize_video_mime
normalize_video_mime(clip_mime) ==
    LET raw_mime == StripMime(LowerMime(IF clip_mime = NoMime THEN <<>> ELSE clip_mime)) IN
    IF raw_mime = <<>> THEN <<"video/webm">>
    ELSE LET base_mime == StripMime(SplitFirst(raw_mime)) IN
         IF base_mime \in SUPPORTED_VIDEO_MIME_TYPES THEN base_mime
         ELSE IF StartsWithVideo(base_mime) THEN base_mime
         ELSE <<"video/webm">>

\* run_nvidia_inference normalizes the clip MIME for the data URL
normalize_video_mime_call(clip_mime) ==
    /\ resp' = Resp("normalize_video_mime", NoToken, 0, NULL, clip_mime,
                    {normalize_video_mime(clip_mime)})
    /\ UNCHANGED <<now, authRequired, users, authSessions, devices, sessions, events, queue,
                   worker, attempts, tg, uploads, inflight>>

NextMime == \E clip_mime \in ClipMimes : normalize_video_mime_call(clip_mime)

SpecMime == Init /\ [][NextMime]_vars

\* C40: the normalized MIME of every clip MIME string carries no parameter and is one
\* of video/mp4, video/webm, video/quicktime, video/mov; an input whose base type is
\* empty or outside that list gives video/webm.
C40_NormalizedInAllowlist ==
    resp.op = "normalize_video_mime" =>
       \A out \in resp.body :
          /\ \A i \in 1..Len(out) : out[i] # Semicolon /\ out[i] # "codecs=vp8,opus"
          /\ out \in SUPPORTED_VIDEO_MIME_TYPES
          /\ LET base == IF resp.id = NoMime THEN <<>>
                         ELSE StripMime(SplitFirst(StripMime(LowerMime(resp.id))))
             IN base \notin SUPPORTED_VIDEO_MIME_TYPES => out = <<"video/webm">>

====
